---------------------------- MODULE Spec2Model ----------------------------
(***************************************************************************)
(* Model of progressive-compute: the useProgressiveCompute hook (the       *)
(* time-sliced scheduler), the InterruptHandler, the CacheManagerImpl with *)
(* its ErrorRecoveryStrategyImpl, and the IndexedDB object store.          *)
(*                                                                         *)
(* One step of the model is one task of the browser's event loop: the      *)
(* call of an API function or the firing of a callback, together with all  *)
(* the promise jobs (microtasks) it leaves behind.  An await on a promise  *)
(* that is settled by synchronous code only never lets another task in;    *)
(* an await on an IndexedDB request does, and splits a function into the   *)
(* steps named after the request it waits for.                             *)
(*                                                                         *)
(* The model starts after the mount effect (useProgressiveCompute.ts       *)
(* 489-632) has run and its initCache() has settled; data, transformFn and *)
(* the options do not change during the life of the hook.                  *)
(***************************************************************************)
EXTENDS Integers, Sequences, FiniteSets, TLC

\* ------------------------------------------------------------------ bounds
MaxItems == 2          \* longest collection handed to the hook
MaxItemValue == 2      \* items are drawn from 1..MaxItemValue
MaxBatchSize == 2      \* batchSize option ranges over 1..MaxBatchSize
MaxPendingSteps == 2   \* cap on simultaneously pending executeStep callbacks
MaxInFlight == 2       \* cap on store requests in flight at the same time
MaxWriteAttempts == 3  \* cap on the put attempts counted for one markComplete call
MaxNextsPerSlice == 3  \* most generator.next() calls that fit in one 16 ms slice
MaxQueued == 2         \* cap on the batches waiting in batchQueue
MaxCalls == 4          \* cap on the calls of start, pause, resume, cancel and reset
MaxFailures == 1       \* cap on the requests that fail when the store is flaky
MaxCacheCalls == 3     \* cap on the calls when the cache is on and the store sound
MaxFaultCalls == 2     \* cap on the calls when the store fails
MaxBatchIndex == 2     \* highest batch index given to storeBatch directly
MaxStoreCalls == 5     \* cap on the direct storeBatch calls
MaxExtraLength == 2    \* the collections keyed are up to this much above 1000 items
MaxKeys == 3           \* number of keys the store is used with directly
MaxClock == 2          \* Date.now() ranges over 0..MaxClock
MaxDirectCalls == 5    \* cap on the direct calls on the manager's entries
maxAge == 1            \* config.maxAge, in clock ticks
MaxCheckedKeys == 1    \* keys checkCache is called on with damaged entries
MaxCallbacks == 2      \* cleanup callbacks registered on one handler
MaxTrackedKeys == 2    \* keys a handler is given to track
MaxLength == 7         \* data.length and batchSize of a generator run alone
maxSize == 2           \* config.maxSize
MaxWords == 1          \* words of detectErrorType in one error message
MaxInvocations == 5    \* cap on the calls of operation() one wrapped call makes
MaxStrategyCalls == 3  \* cap on the direct calls on the recovery strategy

\* ------------------------------------------------------- program constants
MAX_RETRIES == 3
RETRY_DELAY == 1000
BACKOFF_MULTIPLIER == 2

VARIABLES
  \* the hook's arguments and its environment
  data,               \* T[]: the collection
  batchSize,          \* options.batchSize
  cache,              \* options.cache
  dbAvailable,        \* IndexedDB can be opened (initialize() succeeded)
  hasIdle,            \* window.requestIdleCallback exists
  faultMode,          \* how the store fails: "none", "quota", "flaky", "down"
  throwsOn,           \* the item transformFn throws on (0: it never throws)
  \* React state
  result, progress, isComputing, error, cacheStatus,
  \* refs
  generatorRef, isCancelledRef, isPausedRef,
  rafIdRef,           \* the pending updateUI frame (or timer) the ref names
  idleCallbackIdRef,  \* TRUE iff the ref names a still pending idle callback
  pendingSteps,       \* pending executeStep callbacks no ref names
  cacheManagerRef,    \* TRUE iff cacheManagerRef.current is set
  currentCacheKeyRef, \* TRUE iff currentCacheKeyRef.current is the fingerprint
  \* InterruptHandler
  interruptHandler,
  \* CacheManagerImpl and its ErrorRecoveryStrategyImpl
  fallbackMode, retryCount, batchQueue,
  keyCache,           \* the memo of generateKey: pairs <<quickId, key>>
  generatedKeys,      \* what generateKey returned last for each call made
  \* the object store as the manager's own functions see it, key by key
  entries,            \* the entry under each key
  now,                \* Date.now()
  lastCall,           \* the last call made on the manager and what it returned
  \* the object store and the requests in flight, oldest first
  store, pendingOps,
  \* history of the current run, for the properties only
  run,
  \* number of calls of start, pause, resume, cancel and reset so far
  calls,
  \* number of requests that have failed so far in a flaky store
  failures

keyVars == <<keyCache, generatedKeys>>
entryVars == <<entries, now, lastCall>>
\* what no function of the hook writes
options == <<data, batchSize, cache, dbAvailable, hasIdle, faultMode, throwsOn,
             keyVars, entryVars>>
props == <<options, calls, failures>>
reactState == <<result, progress, isComputing, error, cacheStatus>>
loopRefs == <<rafIdRef, idleCallbackIdRef, pendingSteps>>
refs == <<generatorRef, isCancelledRef, isPausedRef, cacheManagerRef,
          currentCacheKeyRef>>
cacheVars == <<fallbackMode, retryCount, batchQueue>>
storeVars == <<store, pendingOps>>
vars == <<props, reactState, loopRefs, refs, interruptHandler, cacheVars,
          storeVars, run>>

\* ----------------------------------------------------------------- values
Null == "null"
Thrown == "thrown"         \* the Error that transformFn throws
Undefined == <<-1>>        \* stands for undefined: next() on a finished generator
NoFrame == [partial |-> <<>>, prog |-> -1]
NoGenerator == [i |-> -1, results |-> <<>>, finished |-> TRUE]

Min(a, b) == IF a < b THEN a ELSE b

RECURSIVE SeqsUpTo(_, _)
SeqsUpTo(S, n) ==
  IF n = 0 THEN {<<>>}
  ELSE LET shorter == SeqsUpTo(S, n - 1)
       IN shorter \cup {Append(s, x) : s \in {t \in shorter : Len(t) = n - 1}, x \in S}

\* --------------------------------------------------- createGenerator (pure)
\* The transform of Scenario A (spec.md 106): item => item * 2.
TransformFn(item) == item * 2

MapTransform(chunk) == [k \in 1..Len(chunk) |-> TransformFn(chunk[k])]

\* chunk.map(transformFn) throws: transformFn throws on one of the items
Throws(chunk) == \E k \in 1..Len(chunk) : chunk[k] = throwsOn

\* data.slice(i, i + batchSize), i counted from 0
Slice(i) == SubSeq(data, i + 1, Min(i + batchSize, Len(data)))

\* Math.round(x) for x = num / den >= 0: floor(x + 1/2)
MathRound(num, den) == (2 * num + den) \div (2 * den)

\* Math.min(100, Math.round(((i + chunk.length) / data.length) * 100))
CurrentProgress(i) ==
  Min(100, MathRound((i + Len(Slice(i))) * 100, Len(data)))

\* Math.ceil(data.length / batchSize)
TotalBatches == (Len(data) + batchSize - 1) \div batchSize

\* Math.floor(prog / (100 / Math.ceil(data.length / batchSize))): the double
\* quotient equals the exact one for up to 10 batches, far above MaxItems.
BatchIndex(prog) == (prog * TotalBatches) \div 100

NewGenerator == [i |-> 0, results |-> <<>>, finished |-> FALSE]

\* One generator.next(): the generator after it and what it yields, returns
\* or throws (a generator that has thrown is finished).
\* g.i is the loop index the body will run with next.
GenNext(g) ==
  IF g.finished
  THEN [gen |-> g, done |-> TRUE, kind |-> "return", value |-> Undefined,
        partial |-> <<>>, progress |-> -1]
  ELSE IF g.i >= Len(data) \/ isCancelledRef
  THEN [gen |-> [g EXCEPT !.finished = TRUE], done |-> TRUE, kind |-> "return",
        value |-> g.results, partial |-> <<>>, progress |-> -1]
  ELSE IF isPausedRef
  THEN [gen |-> g, done |-> FALSE, kind |-> "pause", value |-> <<>>,
        partial |-> <<>>, progress |-> -1]
  ELSE IF Throws(Slice(g.i))
  THEN [gen |-> [g EXCEPT !.finished = TRUE], done |-> FALSE, kind |-> "throw",
        value |-> <<>>, partial |-> <<>>, progress |-> -1]
  ELSE LET transformedChunk == MapTransform(Slice(g.i))
       IN [gen |-> [i |-> g.i + batchSize,
                    results |-> g.results \o transformedChunk,
                    finished |-> FALSE],
           done |-> FALSE, kind |-> "partial", value |-> <<>>,
           partial |-> transformedChunk, progress |-> CurrentProgress(g.i)]

\* ------------------------------------------------- CacheManagerImpl (pure)
\* old: metadata.timestamp lies more than maxAge before now
NoEntry == [exists |-> FALSE, data |-> <<>>, batches |-> <<>>,
            isComplete |-> FALSE, old |-> FALSE]

\* getOrCreateCacheEntry: the stored entry if there is one, else a new one
NewEntry == [exists |-> TRUE, data |-> <<>>, batches |-> <<>>,
             isComplete |-> FALSE, old |-> FALSE]

GetOrCreateCacheEntry(existingEntry) ==
  IF existingEntry.exists THEN existingEntry ELSE NewEntry

\* compressBatchData: drop the items equal to an earlier item of the batch
RECURSIVE CompressBatchData(_)
CompressBatchData(d) ==
  IF Len(d) <= 1 THEN d
  ELSE LET front == CompressBatchData(SubSeq(d, 1, Len(d) - 1))
           last == d[Len(d)]
       IN IF \E k \in 1..Len(front) : front[k] = last
          THEN front ELSE Append(front, last)

\* flushBatchQueue 779-790: replace the batch of the same index or push
UpsertBatch(batches, b) ==
  IF \E k \in 1..Len(batches) : batches[k].index = b.index
  THEN [k \in 1..Len(batches) |->
          IF batches[k].index = b.index THEN b ELSE batches[k]]
  ELSE Append(batches, b)

\* the batches left in the order they were pushed
ArrivalOrder(batches) == batches

\* batches.sort((a, b) => a.index - b.index): insertion of each into a sorted one
RECURSIVE SortByIndex(_)
SortByIndex(batches) ==
  IF Len(batches) <= 1 THEN batches
  ELSE LET front == SortByIndex(SubSeq(batches, 1, Len(batches) - 1))
           last == batches[Len(batches)]
           below == {k \in 1..Len(front) : front[k].index <= last.index}
           cut == IF below = {} THEN 0
                  ELSE CHOOSE k \in below : \A j \in below : j <= k
       IN SubSeq(front, 1, cut) \o <<last>> \o SubSeq(front, cut + 1, Len(front))

\* combineBatchData: the data of the batches in ascending index order
RECURSIVE Concat(_)
Concat(batches) ==
  IF batches = <<>> THEN <<>>
  ELSE batches[1].data \o Concat(Tail(batches))

CombineBatchData(batches) == Concat(SortByIndex(batches))

\* flushBatchQueue 768-801: the entry after the queued batches are merged in
RECURSIVE MergeQueued(_, _)
MergeQueued(batches, queued) ==
  IF queued = <<>> THEN batches
  ELSE MergeQueued(
         UpsertBatch(batches, [index |-> queued[1].index,
                               data |-> CompressBatchData(queued[1].data)]),
         Tail(queued))

FlushedEntry(cacheEntry, queued) ==
  LET sorted == SortByIndex(MergeQueued(cacheEntry.batches, queued))
  IN [cacheEntry EXCEPT !.batches = sorted, !.data = CombineBatchData(sorted)]

\* markComplete 876-878
CompletedEntry(cacheEntry, totalResult) ==
  [cacheEntry EXCEPT !.isComplete = TRUE, !.data = totalResult]

\* The per-key entry of batchQueue; timer is TRUE while its debounce timer
\* is pending.
NoQueue == [exists |-> FALSE, batches |-> <<>>, timer |-> FALSE]

\* storeBatch 702-747: queue the batch and restart the 50 ms timer
StoreBatch(queueEntry, batch, batchIndex) ==
  IF fallbackMode THEN queueEntry
  ELSE [exists |-> TRUE,
        batches |-> Append(queueEntry.batches,
                           [index |-> batchIndex, data |-> batch]),
        timer |-> TRUE]

\* ------------------------------------------------------------- event loop
\* The callbacks that will call executeStep: the idle callback that
\* idleCallbackIdRef names, and those no ref names (idle callbacks whose id
\* was overwritten, and the setTimeout(callback, 0) of scheduleNextFrame).
Loop == [idle |-> idleCallbackIdRef, steps |-> pendingSteps]

\* scheduleNextFrame 191-214
ScheduleNextFrame(l) ==
  IF hasIdle
  THEN [idle |-> TRUE, steps |-> l.steps + (IF l.idle THEN 1 ELSE 0)]
  ELSE [l EXCEPT !.steps = @ + 1]

\* window.cancelIdleCallback(idleCallbackIdRef.current)
CancelIdle(l) == [l EXCEPT !.idle = FALSE]

\* one of the pending callbacks is taken off the loop
Fire(l, tracked) ==
  IF tracked THEN [l EXCEPT !.idle = FALSE] ELSE [l EXCEPT !.steps = @ - 1]

CanFire(tracked) == IF tracked THEN idleCallbackIdRef ELSE pendingSteps > 0

\* ------------------------------------------------------ InterruptHandler
\* handlePause 1410-1425 (the flags)
HandlePause(ih) ==
  IF ih.isPaused THEN ih
  ELSE [ih EXCEPT !.isPaused = TRUE, !.isInterrupted = TRUE]

\* handleCancel 1431-1452 (the flags)
HandleCancel(ih) ==
  IF ih.isCancelled THEN ih
  ELSE [ih EXCEPT !.isCancelled = TRUE, !.isInterrupted = TRUE]

\* handleResume 1475-1487
HandleResume(ih) ==
  IF ~ih.isPaused THEN ih
  ELSE [ih EXCEPT !.isPaused = FALSE, !.isInterrupted = FALSE]

\* reset 1596-1604
ResetHandler(ih) ==
  [ih EXCEPT !.isInterrupted = FALSE, !.isPaused = FALSE,
             !.isCancelled = FALSE, !.currentCacheKey = 0]

\* setCacheKey 1395-1397 (currentCacheKey 0: null)
SetCacheKey(ih, key) == [ih EXCEPT !.currentCacheKey = key]

\* constructor 1384-1390: no callback registered, no key tracked
NewInterruptHandler(cacheManager, preservePartialResults) ==
  [isInterrupted |-> FALSE, isPaused |-> FALSE, isCancelled |-> FALSE,
   cleanupCallbacks |-> <<>>, cacheManager |-> cacheManager,
   currentCacheKey |-> 0,
   preservePartialResults |-> preservePartialResults]

\* registerCleanupCallback 1512-1531: the registry keeps each callback's tag
CallbackTypes == {"pause", "cancel", "unmount", "all"}
RegisterCleanupCallback(ih, type) ==
  [ih EXCEPT !.cleanupCallbacks = Append(@, type)]

\* executeCleanupCallbacks 1550-1571: the tags of the callbacks it runs, in
\* registry order
ExecuteCleanupCallbacks(ih, eventType) ==
  LET Matches(callbackType) ==
        callbackType = "all" \/ callbackType = eventType
  IN SelectSeq(ih.cleanupCallbacks, Matches)

\* cleanupPartialResults leaves every key alone
ClearsNothing(ih) == 0

\* cleanupPartialResults 1576-1591: the key it passes to clearCache (0: it
\* returns without a call)
CleanupPartialResults(ih) ==
  IF ~ih.cacheManager \/ ih.currentCacheKey = 0 THEN 0
  ELSE ih.currentCacheKey

\* The three callbacks the mount effect registered under "all"
\* (useProgressiveCompute.ts 568-593) cancel the frame, the timer and the
\* idle callback the refs name.
RunsCallbacks(ih, already, eventType) ==
  ~already /\ ExecuteCleanupCallbacks(ih, eventType) # <<>>

\* ------------------------------------------------------ store requests
\* A request in flight and the function that awaits it.  entry is the
\* function's local cacheEntry, arg its totalResult, attempts the puts it has
\* made, queue the queueEntry it holds once clearBatchQueue has removed that
\* object from batchQueue, caller the function that awaits this one.
Op(proc, pc, entry, arg, attempts, caller) ==
  [proc |-> proc, pc |-> pc, entry |-> entry, arg |-> arg,
   attempts |-> attempts, caller |-> caller, detached |-> FALSE,
   queue |-> <<>>, retry |-> 0, delay |-> 0]

CanIssue == Len(pendingOps) < MaxInFlight

\* ----------------------------------------------------------- run history
\* What has happened since the last start(): kept for the properties only,
\* nothing the hook or the cache manager does depends on it.
\* started: start() was called and reset() has not completed since;
\* clean: no executeStep callback of an earlier run and no checkCache of an
\* earlier start() was pending at that call;
\* completed, hit: the run delivered its final result, was answered from the
\* cache; paused, resumed: pause(), resume() was called before the run had
\* completed; cancelled: cancel() was called; late: pause(), resume() or
\* cancel() was called after the run had completed;
\* wasReset: reset() has completed and start() was not called since;
\* errored: transformFn threw in a slice of the run.
NewRun == [started |-> TRUE, clean |-> TRUE, completed |-> FALSE,
           paused |-> FALSE, resumed |-> FALSE, cancelled |-> FALSE,
           late |-> FALSE, hit |-> FALSE, wasReset |-> FALSE,
           errored |-> FALSE]
NoRun == [NewRun EXCEPT !.started = FALSE]

\* ------------------------------------------- entries, key by key
Keys == 1..MaxKeys

\* the keys a handler is given to track
HandlerKeys == 1..MaxTrackedKeys

\* no entry under a key
\* shape: "ok" for an entry that passes validateCacheEntry, "corrupt" for one
\* that fails a structural test, "incompatible" for one of another version
NoEntryAt == [exists |-> FALSE, data |-> <<>>, batches |-> <<>>,
              isComplete |-> FALSE, timestamp |-> -1, lastAccessed |-> -1,
              shape |-> "ok"]

\* validateCacheEntry 1639-1712: TRUE when it returns the entry, FALSE when
\* it throws the CacheError of type DATA_CORRUPTION (it never returns null)
ValidateCacheEntry(entry) == entry.shape = "ok"

\* checkCache returned null
NullResult == [data |-> <<>>, isComplete |-> FALSE, timestamp |-> -1,
               batches |-> <<>>]

\* before: the entries when the call was made; prev: the call made before
\* it (both for the properties only)
NoPrev == [op |-> "none", key |-> 0, at |-> 0, result |-> NullResult]
NoCall == [op |-> "none", key |-> 0, usage |-> "low", at |-> 0,
           result |-> NullResult, before |-> [k \in Keys |-> NoEntryAt],
           prev |-> NoPrev]

\* -------------------------------------------------------------------- Init
OpIds == {"cache_check", "flush_batch_queue"}

\* the hook once mounted, whatever data and batchSize it was given
Mounted ==
  /\ cache \in BOOLEAN
  /\ dbAvailable \in (IF cache THEN BOOLEAN ELSE {TRUE})
  /\ hasIdle \in BOOLEAN
  /\ faultMode \in (IF cache /\ dbAvailable
                    THEN {"none", "quota", "flaky", "down"} ELSE {"none"})
  /\ throwsOn \in 0..MaxItemValue
  /\ result = <<>>
  /\ progress = 0
  /\ isComputing = FALSE
  /\ error = Null
  /\ cacheStatus = [enabled |-> cache /\ dbAvailable, hit |-> FALSE]
  /\ generatorRef = NoGenerator
  /\ isCancelledRef = FALSE
  /\ isPausedRef = FALSE
  /\ rafIdRef = NoFrame
  /\ idleCallbackIdRef = FALSE
  /\ pendingSteps = 0
  /\ cacheManagerRef = (cache /\ dbAvailable)
  /\ currentCacheKeyRef = FALSE
  /\ interruptHandler =
       [NewInterruptHandler(cache /\ dbAvailable, cache /\ dbAvailable)
          EXCEPT !.cleanupCallbacks =
                   IF cache THEN <<>> ELSE <<"all", "all", "all">>]
  /\ fallbackMode = FALSE
  /\ retryCount = [id \in OpIds |-> 0]
  /\ batchQueue = NoQueue
  /\ keyCache = {}
  /\ generatedKeys = {}
  /\ entries = [k \in Keys |-> NoEntryAt]
  /\ now = 0
  /\ lastCall = NoCall
  /\ store = NoEntry
  /\ pendingOps = <<>>
  /\ run = NoRun
  /\ calls = 0
  /\ failures = 0

Init ==
  /\ data \in SeqsUpTo(1..MaxItemValue, MaxItems)
  /\ batchSize \in 1..MaxBatchSize
  /\ Mounted

\* ----------------------------------------------------------------- cleanup
\* cleanup("cancel") 123-158 as far as the loop is concerned: the frame and
\* the idle callback the refs name are cancelled, by the registered callbacks
\* of handleCancel or by cleanup itself after its await.
CleanupLoop(l) == CancelIdle(l)

\* ------------------------------------------------------------------ start
\* start 379-413.  cleanup() is not awaited: it runs to its
\* "await handleCancel()" and start goes on.  What is left of cleanup (cancel
\* the frame, timer and idle callback the refs name, setIsComputing(false))
\* is a promise job, queued
\*   - at once when handleCancel() returns without awaiting (the handler is
\*     already cancelled, or preservePartialResults is true), and so before
\*     the job that continues start after "await checkCacheAndStart()";
\*   - one job later when handleCancel() awaits cleanupPartialResults()
\*     (handler not yet cancelled, preservePartialResults false).  With the
\*     cache off, start's continuation is queued before it: start creates the
\*     generator and schedules the first slice, and then cleanup cancels the
\*     idle callback just scheduled.  With the cache on and no cache manager,
\*     "await initializeCache()" puts start's continuation behind it.
\* In every case setIsComputing(false) runs after start's
\* setIsComputing(true).
LateCleanup == ~cache /\ ~interruptHandler.isCancelled

\* checkCacheAndStart leaves the task only for the get of checkCache
StartAwaitsStore == cache /\ cacheManagerRef /\ ~fallbackMode

Start ==
  /\ calls < MaxCalls
  /\ calls' = calls + 1
  /\ ~isComputing
  /\ data # <<>>
  /\ interruptHandler' =
       (IF StartAwaitsStore \/ ~(cache /\ cacheManagerRef)
        THEN HandleCancel(interruptHandler)
        ELSE SetCacheKey(HandleCancel(interruptHandler), 1))
  /\ isCancelledRef' = FALSE
  /\ isPausedRef' = FALSE
  /\ error' = Null
  /\ result' = <<>>
  /\ progress' = 0
  /\ isComputing' = FALSE
  /\ rafIdRef' = NoFrame
  /\ currentCacheKeyRef' = (IF cache /\ cacheManagerRef THEN TRUE
                            ELSE currentCacheKeyRef)
  /\ run' = [NewRun EXCEPT
               !.clean = /\ pendingSteps = 0
                         /\ \A k \in DOMAIN pendingOps :
                              pendingOps[k].proc # "checkCache"]
  /\ IF StartAwaitsStore
     THEN /\ CanIssue
          /\ pendingOps' = Append(pendingOps,
                                  Op("checkCache", "get", NoEntry, <<>>, 0, "start"))
          /\ idleCallbackIdRef' = FALSE
          /\ UNCHANGED <<pendingSteps, generatorRef, cacheStatus>>
     ELSE LET scheduled == ScheduleNextFrame(CleanupLoop(Loop))
              l == IF LateCleanup THEN CleanupLoop(scheduled) ELSE scheduled
          IN /\ l.steps <= MaxPendingSteps
             /\ idleCallbackIdRef' = l.idle
             /\ pendingSteps' = l.steps
             /\ generatorRef' = NewGenerator
             /\ cacheStatus' = (IF cache /\ cacheManagerRef
                                THEN [cacheStatus EXCEPT !.hit = FALSE]
                                ELSE cacheStatus)
             /\ UNCHANGED pendingOps
  /\ UNCHANGED <<options, failures, cacheManagerRef, cacheVars, store>>

\* start when isComputing is true or the collection is empty: returns at 380
StartNoop ==
  /\ isComputing \/ data = <<>>
  /\ UNCHANGED vars

\* ------------------------------------------------------------------ pause
\* pause 415-426
Pause ==
  /\ calls < MaxCalls
  /\ calls' = calls + 1
  /\ isPausedRef' = TRUE
  /\ interruptHandler' = HandlePause(interruptHandler)
  /\ IF RunsCallbacks(interruptHandler, interruptHandler.isPaused, "pause")
     THEN /\ rafIdRef' = NoFrame
          /\ idleCallbackIdRef' = FALSE
     ELSE UNCHANGED <<rafIdRef, idleCallbackIdRef>>
  /\ isComputing' = FALSE
  /\ run' = [run EXCEPT !.paused = @ \/ (run.started /\ ~run.completed),
                         !.late = @ \/ run.completed]
  /\ UNCHANGED <<options, failures, result, progress, error, cacheStatus, pendingSteps,
                 generatorRef, isCancelledRef, cacheManagerRef,
                 currentCacheKeyRef, cacheVars, storeVars>>

\* ----------------------------------------------------------------- resume
\* resume 428-441
Resume ==
  /\ calls < MaxCalls
  /\ calls' = calls + 1
  /\ isPausedRef
  /\ generatorRef # NoGenerator
  /\ interruptHandler' = HandleResume(interruptHandler)
  /\ isPausedRef' = FALSE
  /\ isComputing' = TRUE
  /\ LET l == ScheduleNextFrame(Loop)
     IN /\ l.steps <= MaxPendingSteps
        /\ idleCallbackIdRef' = l.idle
        /\ pendingSteps' = l.steps
  /\ run' = [run EXCEPT !.resumed = @ \/ (run.started /\ ~run.completed),
                         !.late = @ \/ run.completed]
  /\ UNCHANGED <<options, failures, result, progress, error, cacheStatus, rafIdRef,
                 generatorRef, isCancelledRef, cacheManagerRef,
                 currentCacheKeyRef, cacheVars, storeVars>>

\* resume when not paused or without a generator: returns at 429
ResumeNoop ==
  /\ ~isPausedRef \/ generatorRef = NoGenerator
  /\ UNCHANGED vars

\* ----------------------------------------------------------------- cancel
\* cancel 443-445, cleanup("cancel") 123-158.  The handler that was built
\* with preservePartialResults false has no cache manager, so its
\* cleanupPartialResults returns at 1577-1580 and the whole call is one task.
Cancel ==
  /\ calls < MaxCalls
  /\ calls' = calls + 1
  /\ isCancelledRef' = TRUE
  /\ interruptHandler' = HandleCancel(interruptHandler)
  /\ rafIdRef' = NoFrame
  /\ idleCallbackIdRef' = CleanupLoop(Loop).idle
  /\ isComputing' = FALSE
  /\ run' = [run EXCEPT !.cancelled = run.started,
                         !.late = @ \/ run.completed]
  /\ UNCHANGED <<options, failures, result, progress, error, cacheStatus, pendingSteps,
                 generatorRef, isPausedRef, cacheManagerRef,
                 currentCacheKeyRef, cacheVars, storeVars>>

\* ------------------------------------------------------------ executeStep
\* a catch block that loses the error (setError is not called)
CatchErrorUncaptured(s, gen) ==
  [s EXCEPT !.gen = gen, !.isComputing = FALSE, !.returned = TRUE,
            !.threw = TRUE]

\* executeStep 323-329: generator.next() threw; isCancelledRef is false here
\* (the loop checked it at 236) and no next slice is scheduled
CatchError(s, gen) ==
  [s EXCEPT !.gen = gen, !.error = Thrown, !.isComputing = FALSE,
            !.returned = TRUE, !.threw = TRUE]

\* The while loop of executeStep 229-321 from the state s of its locals and
\* of what it writes; budget is the number of generator.next() calls that
\* fit before performance.now() - startTime > 16 breaks the loop.
RECURSIVE SliceLoop(_, _)
SliceLoop(s, budget) ==
  IF isPausedRef
  THEN [s EXCEPT !.isComputing = FALSE, !.returned = TRUE]
  ELSE LET genResult == GenNext(s.gen)
       IN IF genResult.done
          THEN [s EXCEPT !.gen = genResult.gen, !.result = genResult.value,
                         !.progress = 100, !.isComputing = FALSE,
                         !.returned = TRUE, !.completed = TRUE]
          ELSE IF genResult.kind = "throw"
          THEN CatchError(s, genResult.gen)
          ELSE IF genResult.kind = "pause"
          THEN [s EXCEPT !.isComputing = FALSE, !.returned = TRUE]
          ELSE LET stored ==
                     IF cacheManagerRef /\ currentCacheKeyRef
                     THEN StoreBatch(s.queue, genResult.partial,
                                     BatchIndex(genResult.progress))
                     ELSE s.queue
                   s2 == [s EXCEPT !.gen = genResult.gen,
                                   !.raf = [partial |-> genResult.partial,
                                            prog |-> genResult.progress],
                                   !.queue = stored]
               IN IF budget = 1 THEN s2 ELSE SliceLoop(s2, budget - 1)

\* the state the loop starts from
SliceStart ==
  [gen |-> generatorRef, raf |-> rafIdRef, queue |-> batchQueue,
   result |-> result, progress |-> progress, isComputing |-> isComputing,
   error |-> error, returned |-> FALSE, completed |-> FALSE, threw |-> FALSE]

\* executeStep passes its guard at 218-223
EntersLoop == generatorRef # NoGenerator /\ ~isCancelledRef

\* executeStep called now reaches setResult(genResult.value) at 242
Completes(budget) == EntersLoop /\ SliceLoop(SliceStart, budget).completed

\* executeStep 217-331, called by one of the pending callbacks
ExecuteStep(tracked, budget) ==
  /\ CanFire(tracked)
  /\ IF ~EntersLoop
     THEN /\ idleCallbackIdRef' = Fire(Loop, tracked).idle
          /\ pendingSteps' = Fire(Loop, tracked).steps
          /\ UNCHANGED <<reactState, rafIdRef, generatorRef, batchQueue,
                         pendingOps, run>>
     ELSE LET s == SliceLoop(SliceStart, budget)
              l == IF s.returned THEN Fire(Loop, tracked)
                   ELSE ScheduleNextFrame(Fire(Loop, tracked))
              marks == s.completed /\ cacheManagerRef /\ currentCacheKeyRef
          IN /\ l.steps <= MaxPendingSteps
             /\ Len(s.queue.batches) <= MaxQueued
             /\ marks => CanIssue
             /\ idleCallbackIdRef' = l.idle
             /\ pendingSteps' = l.steps
             /\ generatorRef' = s.gen
             /\ rafIdRef' = s.raf
             /\ batchQueue' = s.queue
             /\ result' = s.result
             /\ progress' = s.progress
             /\ isComputing' = s.isComputing
             /\ error' = s.error
             /\ pendingOps' =
                  (IF marks
                   THEN Append(pendingOps,
                               Op("markComplete", "get", NoEntry, s.result, 0,
                                  "executeStep"))
                   ELSE pendingOps)
             /\ run' = [run EXCEPT
                          !.completed = @ \/ (run.started /\ s.completed),
                          !.errored = @ \/ (run.started /\ s.threw)]
             /\ UNCHANGED cacheStatus
  /\ UNCHANGED <<props, isCancelledRef, isPausedRef, cacheManagerRef,
                 currentCacheKeyRef, interruptHandler, fallbackMode,
                 retryCount, store>>

\* scheduleNextFrame 200-206: the idle callback runs with no time left and
\* registers itself again
IdleNoTime(tracked) ==
  /\ hasIdle
  /\ CanFire(tracked)
  /\ LET l == ScheduleNextFrame(Fire(Loop, tracked))
     IN /\ idleCallbackIdRef' = l.idle
        /\ pendingSteps' = l.steps
  /\ UNCHANGED <<props, reactState, rafIdRef, refs, interruptHandler,
                 cacheVars, storeVars, run>>

\* updateUI 306-310, run by the animation frame that rafIdRef names.
\* [...prev, ...partial] of a prev that is undefined throws inside the
\* updater and leaves the state as it is.
UpdateUI ==
  /\ rafIdRef # NoFrame
  /\ result' = (IF result = Undefined THEN result
                ELSE result \o rafIdRef.partial)
  /\ progress' = rafIdRef.prog
  /\ rafIdRef' = NoFrame
  /\ UNCHANGED <<props, isComputing, error, cacheStatus, idleCallbackIdRef,
                 pendingSteps, refs, interruptHandler, cacheVars, storeVars,
                 run>>

\* ------------------------------------------------------------------ reset
\* clearBatchQueue 965-969: the queue object leaves the map; the flushes in
\* flight keep the object they read at 753, with the batches it has now
DetachAll(ops, batchesNow) ==
  [k \in DOMAIN ops |->
     IF ops[k].proc = "flush" /\ ~ops[k].detached
     THEN [ops[k] EXCEPT !.detached = TRUE, !.queue = batchesNow]
     ELSE ops[k]]

\* flushBatchQueue 816-821 once flushOperation() has returned, and for the
\* flush that clearBatchQueue awaits the rest of clearCache up to its first
\* request: 965-969 and the delete of clearSpecificCacheEntry 1029
AfterFlush(op, ops) ==
  LET q == IF op.detached THEN batchQueue
           ELSE [batchQueue EXCEPT !.batches = <<>>, !.timer = FALSE]
  IN IF op.caller = "timer"
     THEN [queue |-> q, ops |-> ops]
     ELSE [queue |-> NoQueue,
           ops |-> Append(DetachAll(ops, q.batches),
                          Op("clearCache", "delete", NoEntry, <<>>, 0, "reset"))]

\* reset 447-487.  clearCache 913-945 runs to its first request: with queued
\* batches and no fallback mode that is the get of the flush it awaits,
\* otherwise the delete of the entry.
Reset(clearCache) ==
  /\ calls < MaxCalls
  /\ calls' = calls + 1
  /\ isCancelledRef' = TRUE
  /\ interruptHandler' = ResetHandler(HandleCancel(interruptHandler))
  /\ rafIdRef' = NoFrame
  /\ idleCallbackIdRef' = CleanupLoop(Loop).idle
  /\ isComputing' = FALSE
  /\ result' = <<>>
  /\ progress' = 0
  /\ error' = Null
  /\ generatorRef' = NoGenerator
  /\ run' = [NoRun EXCEPT !.wasReset =
                         ~(clearCache /\ cacheManagerRef /\ currentCacheKeyRef)]
  /\ IF clearCache /\ cacheManagerRef /\ currentCacheKeyRef
     THEN /\ CanIssue
          /\ IF batchQueue.exists /\ batchQueue.batches # <<>> /\ ~fallbackMode
             THEN /\ pendingOps' =
                       Append(pendingOps,
                              Op("flush", "get", NoEntry, <<>>, 0, "clearCache"))
                  /\ UNCHANGED batchQueue
             ELSE LET after == AfterFlush(
                                 Op("flush", "get", NoEntry, <<>>, 0, "clearCache"),
                                 pendingOps)
                  IN /\ pendingOps' = after.ops
                     /\ batchQueue' = after.queue
          /\ UNCHANGED currentCacheKeyRef
     ELSE /\ currentCacheKeyRef' = FALSE
          /\ UNCHANGED <<pendingOps, batchQueue>>
  /\ UNCHANGED <<options, failures, cacheStatus, pendingSteps, isPausedRef,
                 cacheManagerRef, fallbackMode, retryCount, store>>

\* --------------------------------------------------------- store requests
\* What a request can come back with.  "quota" is a put rejected with a
\* message that isQuotaExceededError 1837-1848 recognises.
PutOutcomes ==
  CASE faultMode = "none" -> {"ok"}
    [] faultMode = "quota" -> {"quota"}
    [] faultMode = "down" -> {"error"}
    [] OTHER -> IF failures < MaxFailures
                THEN {"ok", "quota", "error", "timeout"} ELSE {"ok"}

ReadOutcomes ==
  IF faultMode = "down" THEN {"error"}
  ELSE IF faultMode = "flaky" /\ failures < MaxFailures
  THEN {"ok", "error", "timeout"} ELSE {"ok"}

\* the request came back with o
Counts(o) ==
  failures' = (IF o # "ok" /\ faultMode = "flaky" THEN failures + 1
               ELSE failures)

\* The requests complete in the order they were made; the functions that
\* wait for a retry delay (pc "delay") have no request in flight.
FirstRequest ==
  LET active == {k \in DOMAIN pendingOps : pendingOps[k].pc # "delay"}
  IN IF active = {} THEN 0
     ELSE CHOOSE k \in active : \A j \in active : k <= j

HeadIs(proc, pc) ==
  /\ FirstRequest # 0
  /\ pendingOps[FirstRequest].proc = proc
  /\ pendingOps[FirstRequest].pc = pc

RemoveAt(ops, k) == SubSeq(ops, 1, k - 1) \o SubSeq(ops, k + 1, Len(ops))

\* the function of the request at FirstRequest goes on to its next request
Reissue(op) == Append(RemoveAt(pendingOps, FirstRequest), op)

\* handleError 312-365 for a CacheError of type UNKNOWN_ERROR
\* (CLEANUP_AND_RETRY) or TIMEOUT_ERROR (RETRY_OPERATION), and whether
\* createRecoveryWrapper 403-416 runs the operation again
\* Math.pow(base, n) for n >= 0
RECURSIVE MathPow(_, _)
MathPow(base, n) == IF n = 0 THEN 1 ELSE base * MathPow(base, n - 1)

\* shouldRetry 225-229 with the counters counts
ShouldRetry(counts, id) == counts[id] < MAX_RETRIES /\ ~fallbackMode

\* calculateRetryDelay 233-240 with the counters counts
CalculateRetryDelay(counts, id) ==
  RETRY_DELAY * MathPow(BACKOFF_MULTIPLIER, counts[id])

Recovery(id, timedOut) ==
  IF ~ShouldRetry(retryCount, id)
  THEN [fallbackMode |-> TRUE, retryCount |-> [i \in OpIds |-> 0],
        rerun |-> FALSE, retry |-> 0, delay |-> 0]
  ELSE LET counted == [retryCount EXCEPT ![id] = @ + 1]
       IN [fallbackMode |-> FALSE, retryCount |-> counted,
           rerun |-> timedOut /\ ShouldRetry(counted, id),
           retry |-> counted[id],
           delay |-> CalculateRetryDelay(counted, id)]

\* resetRetryCount 218-220
ResetRetryCount(id) == [retryCount EXCEPT ![id] = 0]

\* maxAge elapses for everything written so far
Aged(entry) == IF entry.exists THEN [entry EXCEPT !.old = TRUE] ELSE entry

Expire ==
  /\ store.exists
  /\ ~store.old
  /\ store' = Aged(store)
  /\ pendingOps' = [k \in DOMAIN pendingOps |->
                      [pendingOps[k] EXCEPT !.entry = Aged(@)]]
  /\ UNCHANGED <<props, reactState, loopRefs, refs, interruptHandler,
                 cacheVars, run>>

HookUnchanged ==
  UNCHANGED <<options, calls, reactState, loopRefs, refs, interruptHandler,
              run>>

\* ------------------------------------------------------------- checkCache
\* checkCacheAndStart 347-370 and start 400-411 once checkCache has come
\* back with cachedResult (NoEntry for null); ops are the requests left
CheckCacheReturns(cachedResult, ops) ==
  /\ pendingOps' = ops
  /\ IF cachedResult.exists /\ cachedResult.isComplete
     THEN /\ result' = cachedResult.data
          /\ progress' = 100
          /\ isComputing' = FALSE
          /\ cacheStatus' = [cacheStatus EXCEPT !.hit = TRUE]
          /\ run' = [run EXCEPT !.hit = TRUE]
          /\ UNCHANGED <<generatorRef, idleCallbackIdRef, pendingSteps,
                         interruptHandler>>
     ELSE /\ cacheStatus' = [cacheStatus EXCEPT !.hit = FALSE]
          /\ interruptHandler' = (IF currentCacheKeyRef
                                  THEN SetCacheKey(interruptHandler, 1)
                                  ELSE interruptHandler)
          /\ generatorRef' = NewGenerator
          /\ LET l == ScheduleNextFrame(Loop)
             IN /\ l.steps <= MaxPendingSteps
                /\ idleCallbackIdRef' = l.idle
                /\ pendingSteps' = l.steps
          /\ UNCHANGED <<result, progress, isComputing, run>>
  /\ UNCHANGED <<options, calls, error, rafIdRef, isCancelledRef, isPausedRef,
                 cacheManagerRef, currentCacheKeyRef, batchQueue>>

\* createRecoveryWrapper 387-419 when the operation of checkCache threw
CheckCacheFailed(timedOut) ==
  LET op == pendingOps[FirstRequest]
      recovery == Recovery("cache_check", timedOut)
  IN /\ fallbackMode' = recovery.fallbackMode
     /\ retryCount' = recovery.retryCount
     /\ UNCHANGED store
     /\ IF recovery.rerun
        THEN /\ pendingOps' = Reissue(
                  [op EXCEPT !.pc = "delay", !.retry = recovery.retry,
                             !.delay = recovery.delay])
             /\ UNCHANGED batchQueue
             /\ HookUnchanged
        ELSE CheckCacheReturns(NoEntry, RemoveAt(pendingOps, FirstRequest))

\* checkCache 441-464: the get came back
CheckCacheGot(o) ==
  /\ Counts(o)
  /\ HeadIs("checkCache", "get")
  /\ LET op == pendingOps[FirstRequest]
     IN IF o # "ok" THEN CheckCacheFailed(o = "timeout")
        ELSE IF ~store.exists
        THEN /\ retryCount' = ResetRetryCount("cache_check")
             /\ UNCHANGED <<fallbackMode, store>>
             /\ CheckCacheReturns(NoEntry, RemoveAt(pendingOps, FirstRequest))
        ELSE /\ pendingOps' =
                  Reissue([op EXCEPT !.pc = IF store.old THEN "expire" ELSE "touch",
                                     !.entry = store])
             /\ UNCHANGED <<cacheVars, store>>
             /\ HookUnchanged

\* checkCache 458-461: the delete of the expired entry came back
CheckCacheExpired(o) ==
  /\ Counts(o)
  /\ HeadIs("checkCache", "expire")
  /\ IF o # "ok" THEN CheckCacheFailed(o = "timeout")
     ELSE /\ store' = NoEntry
          /\ retryCount' = ResetRetryCount("cache_check")
          /\ UNCHANGED fallbackMode
          /\ CheckCacheReturns(NoEntry, RemoveAt(pendingOps, FirstRequest))

\* updateLastAccessed 1726-1744 and checkCache 466-475: the put came back
CheckCacheTouched(o) ==
  /\ Counts(o)
  /\ HeadIs("checkCache", "touch")
  /\ LET op == pendingOps[FirstRequest]
     IN /\ store' = (IF o = "ok" THEN op.entry ELSE store)
        /\ retryCount' = ResetRetryCount("cache_check")
        /\ UNCHANGED fallbackMode
        /\ CheckCacheReturns(op.entry, RemoveAt(pendingOps, FirstRequest))

\* ------------------------------------------------------- flushBatchQueue
\* the 50 ms timer of storeBatch 738-744 fires: flushBatchQueue 752-765
FlushTimer ==
  /\ UNCHANGED failures
  /\ batchQueue.exists
  /\ batchQueue.timer
  /\ IF batchQueue.batches = <<>>
     THEN /\ batchQueue' = [batchQueue EXCEPT !.timer = FALSE]
          /\ UNCHANGED pendingOps
     ELSE IF fallbackMode
     THEN /\ batchQueue' = [batchQueue EXCEPT !.timer = FALSE, !.batches = <<>>]
          /\ UNCHANGED pendingOps
     ELSE /\ CanIssue
          /\ batchQueue' = [batchQueue EXCEPT !.timer = FALSE]
          /\ pendingOps' = Append(pendingOps,
                                  Op("flush", "get", NoEntry, <<>>, 0, "timer"))
  /\ UNCHANGED <<fallbackMode, retryCount, store>>
  /\ HookUnchanged

\* flushBatchQueue 765-804: the get of getOrCreateCacheEntry came back (a
\* failed get is swallowed at 1779 and gives a new entry)
FlushGot(o) ==
  /\ Counts(o)
  /\ HeadIs("flush", "get")
  /\ LET op == pendingOps[FirstRequest]
         cacheEntry == IF o = "ok" THEN GetOrCreateCacheEntry(store) ELSE NewEntry
         queued == IF op.detached THEN op.queue ELSE batchQueue.batches
     IN pendingOps' = Reissue([op EXCEPT !.pc = "put",
                                         !.entry = FlushedEntry(cacheEntry, queued)])
  /\ UNCHANGED <<cacheVars, store>>
  /\ HookUnchanged

\* flushBatchQueue 804-821: the put came back
FlushPut(o) ==
  /\ Counts(o)
  /\ HeadIs("flush", "put")
  /\ LET op == pendingOps[FirstRequest]
         rest == RemoveAt(pendingOps, FirstRequest)
         recovery == Recovery("flush_batch_queue", o = "timeout")
         after == AfterFlush(op, rest)
     IN IF o = "ok"
        THEN /\ store' = op.entry
             /\ retryCount' = ResetRetryCount("flush_batch_queue")
             /\ UNCHANGED fallbackMode
             /\ batchQueue' = after.queue
             /\ pendingOps' = after.ops
        ELSE /\ UNCHANGED store
             /\ fallbackMode' = recovery.fallbackMode
             /\ retryCount' = recovery.retryCount
             /\ IF recovery.rerun
                THEN /\ pendingOps' = Reissue(
                          [op EXCEPT !.pc = "delay",
                                     !.retry = recovery.retry,
                                     !.delay = recovery.delay])
                     /\ UNCHANGED batchQueue
                ELSE /\ batchQueue' = after.queue
                     /\ pendingOps' = after.ops
  /\ HookUnchanged

\* createRecoveryWrapper 410-415: the retry delay is over and the wrapper
\* runs again (377-383)
RetryDelayElapsed(k) ==
  /\ UNCHANGED failures
  /\ k \in DOMAIN pendingOps
  /\ pendingOps[k].pc = "delay"
  /\ LET op == pendingOps[k]
         rest == RemoveAt(pendingOps, k)
     IN IF ~fallbackMode
        THEN /\ pendingOps' = Append(rest, [op EXCEPT !.pc = "get"])
             /\ UNCHANGED batchQueue
             /\ HookUnchanged
        ELSE IF op.proc = "checkCache"
        THEN CheckCacheReturns(NoEntry, rest)
        ELSE /\ batchQueue' = AfterFlush(op, rest).queue
             /\ pendingOps' = AfterFlush(op, rest).ops
             /\ HookUnchanged
  /\ UNCHANGED <<fallbackMode, retryCount, store>>

\* ----------------------------------------------------------- markComplete
\* one more put of this markComplete call, counted up to the bound
Attempted(op) ==
  [op EXCEPT !.attempts = Min(@ + 1, MaxWriteAttempts)]

\* markComplete 874-885: the get of getOrCreateCacheEntry came back.  With
\* totalResult undefined, [...totalResult] throws at 878 and the catch at 888
\* finds no quota error.
MarkCompleteGot(o) ==
  /\ Counts(o)
  /\ HeadIs("markComplete", "get")
  /\ LET op == pendingOps[FirstRequest]
         cacheEntry == IF o = "ok" THEN GetOrCreateCacheEntry(store) ELSE NewEntry
     IN pendingOps' =
          (IF op.arg = Undefined
           THEN RemoveAt(pendingOps, FirstRequest)
           ELSE Reissue([Attempted(op) EXCEPT
                           !.pc = "put",
                           !.entry = CompletedEntry(cacheEntry, op.arg)]))
  /\ UNCHANGED <<cacheVars, store>>
  /\ HookUnchanged

\* markComplete 885-897: the put came back; a quota error starts
\* handleStorageQuotaExceeded 1853-1858
MarkCompletePut(o) ==
  /\ Counts(o)
  /\ HeadIs("markComplete", "put")
  /\ LET op == pendingOps[FirstRequest]
     IN /\ store' = (IF o = "ok" THEN op.entry ELSE store)
        /\ pendingOps' = (IF o = "quota"
                          THEN Reissue([op EXCEPT !.pc = "evictKeys"])
                          ELSE RemoveAt(pendingOps, FirstRequest))
  /\ UNCHANGED cacheVars
  /\ HookUnchanged

\* handleStorageQuotaExceeded 1858-1872: getAllKeys came back.  It throws
\* when getAllKeys fails (1912-1914, caught at 898); with no key it returns
\* and markComplete calls itself at 897.
EvictKeys(o) ==
  /\ Counts(o)
  /\ HeadIs("markComplete", "evictKeys")
  /\ LET op == pendingOps[FirstRequest]
     IN pendingOps' =
          (IF o # "ok" THEN RemoveAt(pendingOps, FirstRequest)
           ELSE IF store.exists THEN Reissue([op EXCEPT !.pc = "evictGet"])
           ELSE Reissue([op EXCEPT !.pc = "get"]))
  /\ UNCHANGED <<cacheVars, store>>
  /\ HookUnchanged

\* handleStorageQuotaExceeded 1872-1896: the get of the one key came back.
\* Without a validated entry the list is empty, entriesToRemove is 1 and
\* entriesWithTimestamps[0].key throws at 1898 and again at 1905: the
\* function throws and markComplete gives up at 898.
EvictGot(o) ==
  /\ Counts(o)
  /\ HeadIs("markComplete", "evictGet")
  /\ LET op == pendingOps[FirstRequest]
     IN pendingOps' =
          (IF o = "ok" /\ store.exists
           THEN Reissue([op EXCEPT !.pc = "evictDelete"])
           ELSE RemoveAt(pendingOps, FirstRequest))
  /\ UNCHANGED <<cacheVars, store>>
  /\ HookUnchanged

\* handleStorageQuotaExceeded 1896-1911 and markComplete 897: the delete
\* came back and markComplete calls itself
EvictDeleted(o) ==
  /\ Counts(o)
  /\ HeadIs("markComplete", "evictDelete")
  /\ LET op == pendingOps[FirstRequest]
     IN /\ store' = (IF o = "ok" THEN NoEntry ELSE store)
        /\ pendingOps' = Reissue([op EXCEPT !.pc = "get"])
  /\ UNCHANGED cacheVars
  /\ HookUnchanged

\* ------------------------------------------------------------- clearCache
\* reset 470-484 once clearCache has returned
ClearCacheReturns ==
  /\ pendingOps' = RemoveAt(pendingOps, FirstRequest)
  /\ cacheStatus' = [cacheStatus EXCEPT !.hit = FALSE]
  /\ currentCacheKeyRef' = FALSE
  /\ run' = [run EXCEPT !.wasReset = ~run.started]
  /\ UNCHANGED <<options, calls, result, progress, isComputing, error, loopRefs,
                 generatorRef, isCancelledRef, isPausedRef, cacheManagerRef,
                 interruptHandler, cacheVars>>

\* clearSpecificCacheEntry 1029-1048: the delete of the entry came back; a
\* failure goes to attemptFallbackCleanup 1092
ClearDeleted(o) ==
  /\ Counts(o)
  /\ HeadIs("clearCache", "delete")
  /\ LET op == pendingOps[FirstRequest]
     IN /\ store' = (IF o = "ok" THEN NoEntry ELSE store)
        /\ pendingOps' = Reissue([op EXCEPT !.pc = IF o = "ok" THEN "deleteMeta"
                                                   ELSE "fallbackGet"])
  /\ UNCHANGED cacheVars
  /\ HookUnchanged

\* clearSpecificCacheEntry 1032-1037: the delete in "cache_metadata" came
\* back, whatever it says
ClearMetaDeleted ==
  /\ UNCHANGED failures
  /\ HeadIs("clearCache", "deleteMeta")
  /\ UNCHANGED store
  /\ ClearCacheReturns

\* attemptFallbackCleanup 1092-1100: the get came back
ClearFallbackGot(o) ==
  /\ Counts(o)
  /\ HeadIs("clearCache", "fallbackGet")
  /\ LET op == pendingOps[FirstRequest]
     IN IF o = "ok" /\ store.exists
        THEN /\ pendingOps' = Reissue([op EXCEPT !.pc = "fallbackDelete"])
             /\ UNCHANGED <<cacheVars, store>>
             /\ HookUnchanged
        ELSE /\ UNCHANGED store
             /\ ClearCacheReturns

\* attemptFallbackCleanup 1100-1113: the transaction of the delete ended
ClearFallbackDeleted(o) ==
  /\ Counts(o)
  /\ HeadIs("clearCache", "fallbackDelete")
  /\ store' = (IF o = "ok" THEN NoEntry ELSE store)
  /\ ClearCacheReturns

\* ------------------------------------------------------------------- Next
Next ==
  \/ Start
  \/ StartNoop
  \/ Pause
  \/ Resume
  \/ ResumeNoop
  \/ Cancel
  \/ \E clearCache \in BOOLEAN : Reset(clearCache)
  \/ \E tracked \in BOOLEAN, budget \in 1..MaxNextsPerSlice :
       ExecuteStep(tracked, budget)
  \/ \E tracked \in BOOLEAN : IdleNoTime(tracked)
  \/ UpdateUI
  \/ Expire
  \/ FlushTimer
  \/ \E o \in ReadOutcomes : CheckCacheGot(o)
  \/ \E o \in ReadOutcomes : CheckCacheExpired(o)
  \/ \E o \in PutOutcomes : CheckCacheTouched(o)
  \/ \E o \in ReadOutcomes : FlushGot(o)
  \/ \E o \in PutOutcomes : FlushPut(o)
  \/ \E k \in 1..MaxInFlight : RetryDelayElapsed(k)
  \/ \E o \in ReadOutcomes : MarkCompleteGot(o)
  \/ \E o \in PutOutcomes : MarkCompletePut(o)
  \/ \E o \in ReadOutcomes : EvictKeys(o)
  \/ \E o \in ReadOutcomes : EvictGot(o)
  \/ \E o \in ReadOutcomes : EvictDeleted(o)
  \/ \E o \in ReadOutcomes : ClearDeleted(o)
  \/ ClearMetaDeleted
  \/ \E o \in ReadOutcomes : ClearFallbackGot(o)
  \/ \E o \in ReadOutcomes : ClearFallbackDeleted(o)

Spec == Init /\ [][Next]_vars

\* ------------------------------------------------- the scheduler by itself
\* cache: false (the default, useProgressiveCompute.ts 30): no cache manager
\* is ever created and only the scheduler acts
InitScheduler == Init /\ ~cache /\ throwsOn = 0

NextScheduler ==
  \/ Start
  \/ StartNoop
  \/ Pause
  \/ Resume
  \/ ResumeNoop
  \/ Cancel
  \/ \E clearCache \in BOOLEAN : Reset(clearCache)
  \/ \E tracked \in BOOLEAN, budget \in 1..MaxNextsPerSlice :
       ExecuteStep(tracked, budget)
  \/ \E tracked \in BOOLEAN : IdleNoTime(tracked)
  \/ UpdateUI

SpecScheduler == InitScheduler /\ [][NextScheduler]_vars

\* ------------------------------------------- the cache with a sound store
\* cache: true, IndexedDB available, every request succeeding and no entry
\* reaching maxAge; collections of MaxItems items; runs are left to
\* themselves (no pause, resume or cancel)
InitCache ==
  /\ Init /\ cache /\ dbAvailable /\ faultMode = "none"
  /\ Len(data) = MaxItems /\ throwsOn = 0

NextCache ==
  \/ calls < MaxCacheCalls /\ Start
  \/ calls < MaxCacheCalls /\ \E clearCache \in BOOLEAN : Reset(clearCache)
  \/ \E tracked \in BOOLEAN, budget \in 1..MaxNextsPerSlice :
       ExecuteStep(tracked, budget)
  \/ \E tracked \in BOOLEAN : IdleNoTime(tracked)
  \/ UpdateUI
  \/ FlushTimer
  \/ \E o \in ReadOutcomes : CheckCacheGot(o)
  \/ \E o \in PutOutcomes : CheckCacheTouched(o)
  \/ \E o \in ReadOutcomes : FlushGot(o)
  \/ \E o \in PutOutcomes : FlushPut(o)
  \/ \E o \in ReadOutcomes : MarkCompleteGot(o)
  \/ \E o \in PutOutcomes : MarkCompletePut(o)
  \/ \E o \in ReadOutcomes : ClearDeleted(o)
  \/ ClearMetaDeleted

SpecCache == InitCache /\ [][NextCache]_vars

\* ------------------------------------------- the cache with a failing store
\* cache: true, IndexedDB available, and either every put rejected for quota
\* or up to MaxFailures requests failing; collections of MaxItems items in
\* one batch; runs are left to themselves (no pause, resume or cancel)
InitFaults ==
  /\ Init
  /\ cache /\ dbAvailable /\ faultMode \in {"quota", "flaky"}
  /\ Len(data) = MaxItems /\ batchSize = MaxBatchSize /\ throwsOn = 0

NextFaults ==
  \/ calls < MaxFaultCalls /\ Start
  \/ calls < MaxFaultCalls /\ \E clearCache \in BOOLEAN : Reset(clearCache)
  \/ \E tracked \in BOOLEAN, budget \in 1..MaxNextsPerSlice :
       ExecuteStep(tracked, budget)
  \/ \E tracked \in BOOLEAN : IdleNoTime(tracked)
  \/ UpdateUI
  \/ Expire
  \/ FlushTimer
  \/ \E o \in ReadOutcomes : CheckCacheGot(o)
  \/ \E o \in ReadOutcomes : CheckCacheExpired(o)
  \/ \E o \in PutOutcomes : CheckCacheTouched(o)
  \/ \E o \in ReadOutcomes : FlushGot(o)
  \/ \E o \in PutOutcomes : FlushPut(o)
  \/ \E k \in 1..MaxInFlight : RetryDelayElapsed(k)
  \/ \E o \in ReadOutcomes : MarkCompleteGot(o)
  \/ \E o \in PutOutcomes : MarkCompletePut(o)
  \/ \E o \in ReadOutcomes : EvictKeys(o)
  \/ \E o \in ReadOutcomes : EvictGot(o)
  \/ \E o \in ReadOutcomes : EvictDeleted(o)
  \/ \E o \in ReadOutcomes : ClearDeleted(o)
  \/ ClearMetaDeleted
  \/ \E o \in ReadOutcomes : ClearFallbackGot(o)
  \/ \E o \in ReadOutcomes : ClearFallbackDeleted(o)

SpecFaults == InitFaults /\ [][NextFaults]_vars

\* -------------------------------------------------------------- properties
\* start() was called and nothing else of the API since
Uninterrupted ==
  /\ run.started /\ run.clean
  /\ ~run.paused /\ ~run.resumed /\ ~run.cancelled /\ ~run.late

\* a run is in progress: a generator that has not returned is being driven
\* by a pending callback and is neither paused nor cancelled
RunInProgress ==
  /\ generatorRef # NoGenerator /\ ~generatorRef.finished
  /\ ~isCancelledRef /\ ~isPausedRef
  /\ (idleCallbackIdRef \/ pendingSteps > 0)

\* the scheduler is Paused with a live run
PausedWithLiveRun ==
  /\ isPausedRef /\ ~isCancelledRef
  /\ generatorRef # NoGenerator /\ ~generatorRef.finished

\* this step is an executeStep that reaches setResult(genResult.value)
DeliversFinalResult ==
  \E tracked \in BOOLEAN, budget \in 1..MaxNextsPerSlice :
    ExecuteStep(tracked, budget) /\ Completes(budget)

\* this step is the start() continuation that delivers a cache hit
DeliversCacheHit ==
  /\ HeadIs("checkCache", "touch")
  /\ pendingOps[FirstRequest].entry.isComplete
  /\ \E o \in PutOutcomes : CheckCacheTouched(o)

\* C1: with cache disabled, once an uninterrupted run has completed, result
\* is the transform of every item in the original order and progress is 100,
\* and stays so while the callbacks the run left behind fire.
C1_CompletedRunHasTransformedResult ==
  (~cache /\ data # <<>> /\ Uninterrupted /\ run.completed)
    => (result = MapTransform(data) /\ progress = 100)

\* C2: a run that was paused while in progress and resumed afterwards
\* delivers, whenever it delivers a final result, the transform of every
\* item in the original order, as an uninterrupted run does.
C2_PausedAndResumedRunDeliversSameResult ==
  [][(DeliversFinalResult /\ run.started /\ run.clean /\ run.paused
        /\ run.resumed /\ ~run.cancelled /\ ~run.late)
       => result' = MapTransform(data)]_vars

\* C3: with a complete entry in the store, start() answers from the cache:
\* hit is set, the data delivered is the final result of the run that wrote
\* the entry, progress is 100, and no generator is created, no slice is
\* scheduled and no batch is queued.
C3_SecondStartIsAnsweredFromCache ==
  [][(DeliversCacheHit /\ run.started /\ run.clean)
       => /\ cacheStatus'.hit
          /\ result' = MapTransform(data)
          /\ progress' = 100
          /\ UNCHANGED <<generatorRef, idleCallbackIdRef, pendingSteps,
                         batchQueue>>]_vars

\* C4: a stored entry with isComplete true holds as data the final result
\* that was passed to markComplete (executeStep passes genResult.value, the
\* transform of the whole collection), whatever flush was written before or
\* after it.
C4_CompleteEntryHoldsFinalResult ==
  (store.exists /\ store.isComplete) => store.data = MapTransform(data)

\* C5: whatever store requests fail, a run with the cache enabled delivers
\* the result a run without cache delivers, by computing or from the cache,
\* and error stays null.
C5_StoreFailuresLeaveResultAndError ==
  /\ [](error = Null)
  /\ [][((DeliversFinalResult \/ DeliversCacheHit) /\ run.started /\ run.clean)
          => (result' = MapTransform(data) /\ progress' = 100)]_vars

\* C6: when every put fails for quota, one markComplete call makes at most
\* two put attempts (the first and one retry after the eviction pass).
C6_MarkCompleteRetriesOnce ==
  \A k \in DOMAIN pendingOps :
    pendingOps[k].proc = "markComplete" => pendingOps[k].attempts <= 2

\* C7: start() called while a run is in progress or with an empty collection
\* changes nothing: no state is reset, no generator is created, no slice is
\* scheduled and the current run is not cancelled.
C7_StartIsNoopWhileRunning ==
  [][((Start \/ StartNoop) /\ (RunInProgress \/ data = <<>>))
       => UNCHANGED <<reactState, loopRefs, refs, interruptHandler>>]_vars

\* C8: once cancel() has been called, isComputing is false until the next
\* start(), no executeStep advances the generator and none delivers a result.
C8_CancelledRunStaysStopped ==
  /\ [](run.cancelled => ~isComputing)
  /\ [][run.cancelled /\ run'.cancelled
          => UNCHANGED <<generatorRef, result, progress>>]_vars

\* C9: resume() called when the scheduler is not Paused with a live run
\* leaves result, progress and isComputing as they are and schedules no slice.
C9_ResumeOnlyWhenPaused ==
  [][((Resume \/ ResumeNoop) /\ ~PausedWithLiveRun)
       => UNCHANGED <<result, progress, isComputing, idleCallbackIdRef,
                      pendingSteps>>]_vars

\* C10: after reset() has completed and until the next start(), result is
\* empty, progress is 0, error is null and isComputing is false, whatever
\* the previous run left behind.
C10_ResetStateLasts ==
  run.wasReset =>
    (result = <<>> /\ progress = 0 /\ error = Null /\ ~isComputing)

\* C11: when the clearCache of reset(true) has returned, the store holds no
\* entry under the fingerprint; reset() and reset(false) leave the store, the
\* requests in flight and the batch queue as they are.
C11_ResetClearsEntryOnlyOnRequest ==
  [][/\ ClearMetaDeleted => ~store'.exists
     /\ Reset(FALSE) => UNCHANGED <<store, pendingOps, batchQueue>>]_vars

\* --------------------------------------- the cache with a throwing transform
\* cache: true, sound store, transformFn throwing on the items equal to
\* throwsOn (the collection may or may not hold one)
InitThrows ==
  /\ Init /\ cache /\ dbAvailable /\ faultMode = "none"
  /\ Len(data) = MaxItems /\ throwsOn # 0

SpecThrows == InitThrows /\ [][NextCache]_vars

\* the markComplete calls among the requests ops
MarkCompleteCalls(ops) ==
  Cardinality({k \in DOMAIN ops : ops[k].proc = "markComplete"})

\* a clearCache asked for by reset(true) is still at work
Clearing ==
  \E k \in DOMAIN pendingOps :
    pendingOps[k].proc = "clearCache" \/ pendingOps[k].caller = "clearCache"

\* one of the batches holds the transform of an item transformFn throws on
HasFailingItem(batches) ==
  \E k \in DOMAIN batches : \E j \in DOMAIN batches[k].data :
    batches[k].data[j] = TransformFn(throwsOn)

\* transformFn threw in the run started by the last start()
ErroredRun == run.started /\ run.clean /\ run.errored

InitDown ==
  /\ Init
  /\ cache /\ dbAvailable /\ faultMode = "down"
  /\ Len(data) = MaxItems /\ batchSize = MaxBatchSize /\ throwsOn = 0

NextDown ==
  \/ Start
  \/ \E clearCache \in BOOLEAN : Reset(clearCache)
  \/ \E tracked \in BOOLEAN, budget \in 1..MaxNextsPerSlice :
       ExecuteStep(tracked, budget)
  \/ \E tracked \in BOOLEAN : IdleNoTime(tracked)
  \/ UpdateUI
  \/ FlushTimer
  \/ \E o \in ReadOutcomes : CheckCacheGot(o)
  \/ \E o \in ReadOutcomes : FlushGot(o)
  \/ \E o \in PutOutcomes : FlushPut(o)
  \/ \E o \in ReadOutcomes : MarkCompleteGot(o)
  \/ \E o \in PutOutcomes : MarkCompletePut(o)
  \/ \E o \in ReadOutcomes : ClearDeleted(o)
  \/ \E o \in ReadOutcomes : ClearFallbackGot(o)

SpecDown == InitDown /\ [][NextDown]_vars

\* C13: once the manager is in fallback mode, no call to it sends a request
\* to the store: the requests in flight only get fewer.
C13_FallbackModeIssuesNoStoreRequest ==
  [][fallbackMode => Len(pendingOps') <= Len(pendingOps)]_vars


\* getStatus(key) 1545-1589, its enabled field: false before initialize()
\* has succeeded and true in every branch after that.
getStatus == [enabled |-> cacheManagerRef]

\* C14: whenever the recovery strategy is in fallback mode, the cacheStatus
\* the caller sees and the status the manager reports both say the cache is
\* not enabled.
C14_FallbackModeShowsCacheDisabled ==
  fallbackMode => (~cacheStatus.enabled /\ ~getStatus.enabled)


\* --------------------------------------------- the manager called directly
\* storeBatch(key, batch, batchIndex) called on the manager itself, for one
\* key: the caller picks the index and the data, in any order and with
\* repeats
BatchIndexes == 0..MaxBatchIndex
BatchData == UNION {[1..n -> 1..MaxItemValue] : n \in 1..MaxBatchSize}

StoreBatchCall(batchIndex, batch) ==
  /\ calls < MaxStoreCalls
  /\ calls' = calls + 1
  /\ Len(batchQueue.batches) < MaxQueued
  /\ batchQueue' = StoreBatch(batchQueue, batch, batchIndex)
  /\ UNCHANGED <<options, failures, reactState, loopRefs, refs,
                 interruptHandler, run, fallbackMode, retryCount, pendingOps,
                 store>>

\* cache: true, IndexedDB available and sound, the hook idle; the only
\* calls are storeBatch calls and the flushes their timers start
InitManager ==
  /\ Init /\ cache /\ dbAvailable /\ faultMode = "none"
  /\ data = [k \in 1..MaxItems |-> 1] /\ batchSize = MaxBatchSize
  /\ hasIdle /\ throwsOn = 0

NextManager ==
  \/ \E batchIndex \in BatchIndexes, batch \in BatchData :
       StoreBatchCall(batchIndex, batch)
  \/ FlushTimer
  \/ \E o \in ReadOutcomes : FlushGot(o)
  \/ \E o \in PutOutcomes : FlushPut(o)

SpecManager == InitManager /\ [][NextManager]_vars

StrictlyAscending(batches) ==
  \A k \in 1..(Len(batches) - 1) : batches[k].index < batches[k + 1].index

\* C15: whatever the order and the repeats of the indexes given to
\* storeBatch, the stored entry holds its batches in strictly ascending
\* index order (so one batch per index), and while it is not complete its
\* data is the concatenation of the data of these batches in that order.
C15_StoredBatchesSortedAndCombined ==
  store.exists =>
    /\ StrictlyAscending(store.batches)
    /\ ~store.isComplete => store.data = Concat(store.batches)

\* all the indexes are stored, and the batches being flushed arrived with
\* the highest index first and repeat stored indexes
C15_Witness ==
  /\ store.exists
  /\ Len(store.batches) = MaxBatchIndex + 1
  /\ \E k \in DOMAIN pendingOps :
       /\ pendingOps[k].proc = "flush" /\ pendingOps[k].pc = "put"
  /\ Len(batchQueue.batches) = 2
  /\ batchQueue.batches[1].index = MaxBatchIndex
  /\ batchQueue.batches[2].index = 0


\* C16: the batches a run queues for storage carry their position in the
\* run as index: the batch made of the items from g.i on carries
\* g.i / batchSize, so the first carries 0 and each next one carries one more.
C16_BatchIndexIsPosition ==
  [][\A j \in (Len(batchQueue.batches) + 1)..Len(batchQueue'.batches) :
       generatorRef # NoGenerator =>
         batchQueue'.batches[j].index =
           (generatorRef.i \div batchSize) + (j - Len(batchQueue.batches) - 1)]_vars


\* ------------------------------------------------------------- generateKey
\* Collections of more than SampleThreshold numbers: every item is 1 but
\* the item at index `changed` (from 0; -1: none), which is 2.
SampleThreshold == 1000
Lengths == (SampleThreshold + 1)..(SampleThreshold + MaxExtraLength)
BoundaryIndexes(n) == {0, n \div 2, n - 1}
Collections ==
  {d \in [length : Lengths, changed : -1..(SampleThreshold + MaxExtraLength)] :
     d.changed \in BoundaryIndexes(d.length) \cup {-1}}
Item(d, i) == IF i = d.changed THEN 2 ELSE 1

\* transformFn.toString(): the text x=>x*2 as character codes
TransformFns == {<<120, 61, 62, 120, 42, 50>>}

\* String(n) for n >= 0, as character codes
RECURSIVE Digits(_)
Digits(n) ==
  IF n < 10 THEN <<48 + n>> ELSE Append(Digits(n \div 10), 48 + (n % 10))

\* JSON.stringify of an array of non-negative integers
RECURSIVE Joined(_)
Joined(items) ==
  IF Len(items) = 1 THEN Digits(items[1])
  ELSE Joined(SubSeq(items, 1, Len(items) - 1)) \o <<44>>
         \o Digits(items[Len(items)])
JsonArray(items) == <<91>> \o Joined(items) \o <<93>>

\* createHash 2008-2020 (DJB2).  A 32-bit integer is kept as its two 16-bit
\* halves <<high, low>>; (hash << 5) + hash + char wraps to 32 bits.
HashStep(hash, char) ==
  LET low == hash[2] * 33 + char
      high == hash[1] * 33 + (low \div 65536)
  IN <<high % 65536, low % 65536>>

\* the loop of createHash 2013-2017 over chars, from hash
HashLoop(hash, chars) ==
  LET h[k \in 0..Len(chars)] ==
        IF k = 0 THEN hash ELSE HashStep(h[k - 1], chars[k])
  IN h[Len(chars)]

\* the same loop run ten characters at a time (each intermediate hash is
\* computed before the next ten characters are read)
RECURSIVE HashBlocks(_, _)
HashBlocks(hash, chars) ==
  IF Len(chars) <= 10 THEN HashLoop(hash, chars)
  ELSE LET mid == HashLoop(hash, SubSeq(chars, 1, 10))
       IN IF mid[1] < 0 THEN mid
          ELSE HashBlocks(mid, SubSeq(chars, 11, Len(chars)))

\* Math.abs of the signed 32-bit integer
MathAbs(hash) ==
  IF hash[1] < 32768 THEN hash
  ELSE IF hash[2] = 0 THEN <<(65536 - hash[1]) % 65536, 0>>
  ELSE <<65535 - hash[1], 65536 - hash[2]>>

\* toString(36) as the sequence of base-36 digits; 2^31 is "zik0zk"
RECURSIVE Base36(_)
Base36(n) ==
  IF n < 36 THEN <<n>> ELSE Append(Base36(n \div 36), n % 36)

ToString36(hash) ==
  IF hash[1] >= 32768 THEN <<35, 18, 20, 0, 35, 20>>
  ELSE Base36(hash[1] * 65536 + hash[2])

CreateHash(chars) == ToString36(MathAbs(HashBlocks(<<0, 5381>>, chars)))

\* createOptimizedDataHash 1921-1949 for more than SampleThreshold items
SampleSize(n) == Min(100, (n + 99) \div 100)
SampleStep(n) == n \div SampleSize(n)
Samples(d) ==
  LET step == SampleStep(d.length)
      count == (d.length + step - 1) \div step
  IN [k \in 1..count |-> Item(d, (k - 1) * step)]

CreateOptimizedDataHash(d) ==
  LET keyElements == <<Item(d, 0), Item(d, d.length \div 2),
                       Item(d, d.length - 1)>> \o Samples(d)
  IN CreateHash(Digits(d.length) \o <<95>> \o JsonArray(keyElements))

\* createOptimizedFunctionHash 1954-1970: the hash of the characteristics of
\* the text; for a text of at most 50 characters firstChars and lastChars
\* are the text itself, and the other fields are its length and four flags
\* that the text determines
CreateOptimizedFunctionHash(fnString) ==
  CreateHash(Digits(Len(fnString)) \o fnString \o fnString)

\* `${data.length}_${transformFn.toString().length}`
QuickId(d, fnString) == <<d.length, Len(fnString)>>

\* generateKey 357-400: the key it returns and the memo it leaves.  A key is
\* kept as <<dataHash, fnHash>>; the code joins them with "_" after the
\* CACHE_VERSION that all keys share.
GenerateKey(d, fnString) ==
  LET quickId == QuickId(d, fnString)
  IN IF \E m \in keyCache : m[1] = quickId
     THEN [key |-> (CHOOSE m \in keyCache : m[1] = quickId)[2],
           keyCache |-> keyCache]
     ELSE LET key == <<CreateOptimizedDataHash(d),
                       CreateOptimizedFunctionHash(fnString)>>
          IN [key |-> key,
              keyCache |-> IF Cardinality(keyCache) < 1000
                           THEN keyCache \cup {<<quickId, key>>}
                           ELSE keyCache]

\* the manager's generateKey(data, transformFn) is called
GenerateKeyCall(d, fnString) ==
  /\ keyCache' = GenerateKey(d, fnString).keyCache
  /\ generatedKeys' =
       {g \in generatedKeys : ~(g.data = d /\ g.fn = fnString)}
         \cup {[data |-> d, fn |-> fnString,
                key |-> GenerateKey(d, fnString).key]}
  /\ UNCHANGED <<data, batchSize, cache, dbAvailable, hasIdle, faultMode,
                 throwsOn, entryVars, calls, failures, reactState, loopRefs,
                 refs, interruptHandler, cacheVars, storeVars, run>>

\* one manager, initialized, on which only generateKey is called
InitKeys ==
  /\ Init /\ cache /\ dbAvailable /\ faultMode = "none"
  /\ data = [k \in 1..MaxItems |-> 1] /\ batchSize = MaxBatchSize
  /\ hasIdle /\ throwsOn = 0

NextKeys ==
  \E d \in Collections, fnString \in TransformFns : GenerateKeyCall(d, fnString)

SpecKeys == InitKeys /\ [][NextKeys]_vars

\* C17: two collections of the same length above 1000 that differ in one
\* boundary element only (the first, the middle or the last) get different
\* keys from the same manager with the same transform, whatever keys it
\* generated before.
C17_BoundaryChangeChangesKey ==
  \A a \in generatedKeys, b \in generatedKeys :
    (/\ a.fn = b.fn
     /\ a.data.length = b.data.length
     /\ a.data.changed = -1
     /\ b.data.changed \in BoundaryIndexes(b.data.length))
      => a.key # b.key


\* ------------------------------------- the manager's entries, key by key
\* The manager is initialized, the store is sound, and each call is awaited
\* before the next one is made, so a call is one step.  Time passes between
\* the calls.
\* a store that keeps every entry for ever
NeverExpired(entry) == FALSE

\* isCacheExpired 1717-1721
IsCacheExpired(entry) == now - entry.timestamp > maxAge

\* updateLastAccessed 1726-1744 that also restarts the age of the entry
UpdateTimestamps(entry) ==
  [entry EXCEPT !.lastAccessed = now, !.timestamp = now]

\* updateLastAccessed 1726-1744
UpdateLastAccessed(entry) == [entry EXCEPT !.lastAccessed = now]

\* cleanupOldEntriesIfNeeded that removes nothing
KeepEntries(es) == es

\* getOrCreateCacheEntry 1761-1799 for the key k
GetOrCreateEntryAt(k) ==
  IF entries[k].exists /\ ValidateCacheEntry(entries[k]) THEN entries[k]
  ELSE [NoEntryAt EXCEPT !.exists = TRUE, !.timestamp = now,
                         !.lastAccessed = now]

Called(op, k, usage, res) ==
  /\ calls < MaxDirectCalls
  /\ calls' = calls + 1
  /\ lastCall' = [op |-> op, key |-> k, usage |-> usage, at |-> now,
                  result |-> res, before |-> entries,
                  prev |-> [op |-> lastCall.op, key |-> lastCall.key,
                            at |-> lastCall.at, result |-> lastCall.result]]
  /\ UNCHANGED <<data, batchSize, cache, dbAvailable, hasIdle, faultMode,
                 throwsOn, keyVars, now, failures, reactState, loopRefs, refs,
                 interruptHandler, cacheVars, storeVars, run>>

\* storeBatch(k, batch, 0) 702-747 and the flush 752-821 its timer starts
StoreEntryCall(k, batch) ==
  /\ entries' =
       [entries EXCEPT ![k] =
          [FlushedEntry(GetOrCreateEntryAt(k),
                        <<[index |-> 0, data |-> batch]>>)
             EXCEPT !.lastAccessed = now]]
  /\ Called("storeBatch", k, "low", NullResult)

\* markComplete(k, totalResult) 865-885
MarkCompleteCall(k, totalResult) ==
  /\ entries' =
       [entries EXCEPT ![k] =
          [CompletedEntry(GetOrCreateEntryAt(k), totalResult)
             EXCEPT !.lastAccessed = now]]
  /\ Called("markComplete", k, "low", NullResult)

\* checkCache(k) 429-486 with updateLastAccessed 1726-1744
CheckCacheCall(k) ==
  LET cacheEntry == entries[k]
  IN IF ~cacheEntry.exists
     THEN /\ UNCHANGED entries
          /\ Called("checkCache", k, "low", NullResult)
     ELSE IF IsCacheExpired(cacheEntry)
     THEN /\ entries' = [entries EXCEPT ![k] = NoEntryAt]
          /\ Called("checkCache", k, "low", NullResult)
     ELSE /\ entries' = [entries EXCEPT ![k] = UpdateLastAccessed(cacheEntry)]
          /\ Called("checkCache", k, "low",
                    [data |-> cacheEntry.data,
                     isComplete |-> cacheEntry.isComplete,
                     timestamp |-> cacheEntry.timestamp,
                     batches |-> cacheEntry.batches])

\* the keys of S that come first when S is sorted by lastAccessed (the sort
\* is stable and getAllKeys gives the keys in ascending order), n of them
SortsBefore(es, j, k) ==
  \/ es[j].lastAccessed < es[k].lastAccessed
  \/ es[j].lastAccessed = es[k].lastAccessed /\ j < k

OldestFirst(es, S, n) ==
  {k \in S : Cardinality({j \in S : SortsBefore(es, j, k)}) < n}

Delete(es, S) == [k \in Keys |-> IF k \in S THEN NoEntryAt ELSE es[k]]

AllKeys(es) == {k \in Keys : es[k].exists}

\* analyzeEntriesForCleanup 1200-1264 and cleanupExpiredEntries 1269-1285
CleanupExpiredEntries(es) ==
  Delete(es, {k \in AllKeys(es) : IsCacheExpired(es[k])})

\* cleanupOldEntriesIfNeeded 1290-1338 for the valid entries
CleanupOldEntriesIfNeeded(es) ==
  LET validEntries == AllKeys(es)
      targetCount == (maxSize * 3) \div 4
      count == Cardinality(validEntries)
      entriesToRemove == IF count > targetCount THEN count - targetCount ELSE 0
  IN IF count <= maxSize THEN es
     ELSE Delete(es, OldestFirst(es, validEntries, entriesToRemove))

\* performAggressiveCleanup 1383-1441
PerformAggressiveCleanup(es) ==
  Delete(es, OldestFirst(es, AllKeys(es), Cardinality(AllKeys(es)) \div 2))

\* performPreventiveCleanup 1446-1504
PerformPreventiveCleanup(es) ==
  IF 5 * Cardinality(AllKeys(es)) <= 4 * maxSize THEN es
  ELSE Delete(es, OldestFirst(es, AllKeys(es), Cardinality(AllKeys(es)) \div 5))

\* checkAndHandleStorageQuota 1343-1378; usage is what
\* navigator.storage.estimate() tells: "low" (at most 75 % used, or no
\* estimate), "moderate" (above 75 %), "high" (above 90 %), "failed" (it threw)
Usages == {"low", "moderate", "high", "failed"}

CheckAndHandleStorageQuota(es, usage) ==
  CASE usage = "high" -> PerformAggressiveCleanup(es)
    [] usage \in {"moderate", "failed"} -> PerformPreventiveCleanup(es)
    [] OTHER -> es

\* cleanupExpired() 1153-1194
CleanupExpiredCall(usage) ==
  /\ entries' =
       (IF AllKeys(entries) = {} THEN entries
        ELSE CheckAndHandleStorageQuota(
               CleanupOldEntriesIfNeeded(CleanupExpiredEntries(entries)),
               usage))
  /\ Called("cleanupExpired", 0, usage, NullResult)

\* time passes
Tick ==
  /\ now < MaxClock
  /\ now' = now + 1
  /\ UNCHANGED <<data, batchSize, cache, dbAvailable, hasIdle, faultMode,
                 throwsOn, keyVars, entries, lastCall, calls, failures,
                 reactState, loopRefs, refs, interruptHandler, cacheVars,
                 storeVars, run>>

InitEntries ==
  /\ Init /\ cache /\ dbAvailable /\ faultMode = "none"
  /\ data = [k \in 1..MaxItems |-> 1] /\ batchSize = MaxBatchSize
  /\ hasIdle /\ throwsOn = 0

NextEntries ==
  \/ \E k \in Keys : StoreEntryCall(k, <<TransformFn(1)>>)
  \/ \E k \in Keys : MarkCompleteCall(k, <<TransformFn(1)>>)
  \/ \E k \in Keys : CheckCacheCall(k)
  \/ \E usage \in Usages : CleanupExpiredCall(usage)
  \/ Tick

SpecEntries == InitEntries /\ [][NextEntries]_vars


\* the last call was op, made when the entry under k was older than maxAge
ExpiredWhenCalled(op, k) ==
  /\ lastCall.op = op
  /\ lastCall.before[k].exists
  /\ lastCall.at - lastCall.before[k].timestamp > maxAge

\* C18: an entry created more than maxAge ago is not returned by
\* checkCache, which returns null and deletes it, and it is not in the store
\* when cleanupExpired() has completed.
C18_ExpiredEntryIsNotServed ==
  /\ [](lastCall.op = "checkCache" /\ lastCall.result # NullResult
          => lastCall.at - lastCall.result.timestamp <= maxAge)
  /\ [][\A k \in Keys :
          (ExpiredWhenCalled("checkCache", k)' /\ lastCall'.key = k
             /\ calls' = calls + 1)
            => lastCall'.result = NullResult /\ ~entries'[k].exists]_vars
  /\ [][\A k \in Keys :
          (ExpiredWhenCalled("cleanupExpired", k)' /\ calls' = calls + 1)
            => ~entries'[k].exists]_vars

\* checkCache has just met an expired entry, while another expired entry
\* waits for cleanupExpired
C18_Witness ==
  \E k \in Keys, j \in Keys :
    /\ ExpiredWhenCalled("checkCache", k) /\ lastCall.key = k
    /\ j # k /\ entries[j].exists /\ now - entries[j].timestamp > maxAge


\* the keys of the entries of es that are at most maxAge old at time t
ValidAt(es, t) == {k \in Keys : es[k].exists /\ t - es[k].timestamp <= maxAge}

\* the last call was cleanupExpired() with no storage pressure
CleanedWithoutPressure ==
  lastCall.op = "cleanupExpired" /\ lastCall.usage = "low"

\* C19: cleanupExpired() without storage pressure, called with more than
\* maxSize valid entries, leaves floor(0.75 * maxSize) valid entries and
\* every entry it evicted was last accessed no later than every entry it
\* kept; called with at most maxSize valid entries it evicts none of them.
C19_SizeEvictionKeepsMostRecent ==
  CleanedWithoutPressure =>
    LET valid == ValidAt(lastCall.before, lastCall.at)
        kept == ValidAt(entries, lastCall.at)
    IN /\ Cardinality(valid) > maxSize =>
            /\ Cardinality(kept) = (maxSize * 3) \div 4
            /\ kept \subseteq valid
            /\ \A e \in valid \ kept, q \in kept :
                 lastCall.before[e].lastAccessed
                   <= lastCall.before[q].lastAccessed
       /\ Cardinality(valid) <= maxSize => kept = valid
       /\ \A k \in kept : entries[k] = lastCall.before[k]

\* more than maxSize valid entries, not all accessed at the same time, were
\* there when cleanupExpired() was called
C19_Witness ==
  /\ CleanedWithoutPressure
  /\ Cardinality(ValidAt(lastCall.before, lastCall.at)) > maxSize
  /\ \E j \in Keys, k \in Keys :
       /\ j \in ValidAt(lastCall.before, lastCall.at)
       /\ k \in ValidAt(lastCall.before, lastCall.at)
       /\ lastCall.before[j].lastAccessed < lastCall.before[k].lastAccessed

\* checkCache(k) was called twice in a row and the entry under k was not
\* older than maxAge at the second call
CheckedTwice ==
  /\ lastCall.op = "checkCache"
  /\ lastCall.prev.op = "checkCache"
  /\ lastCall.prev.key = lastCall.key
  /\ ~ExpiredWhenCalled("checkCache", lastCall.key)

\* C20: two checkCache(k) calls in a row, with no write by another
\* operation and no expiry between them, return the same data, isComplete,
\* timestamp and batches (or null both).
C20_CheckCacheTwiceSameResult ==
  CheckedTwice => lastCall.result = lastCall.prev.result

\* the two calls returned an entry, the second one later than the first
C20_Witness ==
  /\ CheckedTwice
  /\ lastCall.result # NullResult
  /\ lastCall.result.batches # <<>>
  /\ lastCall.at > lastCall.prev.at


\* C21: an operation may be retried while its retry counter is below 3 and
\* no more after 3 increments, and the wrapper waits 1000 ms before the
\* first retry of an operation, 2000 ms before the second and 4000 ms before
\* the third (1000 * 2^(n - 1) before the n-th).
C21_RetryBudgetAndDelays ==
  /\ ~fallbackMode =>
       \A id \in OpIds : ShouldRetry(retryCount, id) <=> retryCount[id] < 3
  /\ \A k \in DOMAIN pendingOps :
       pendingOps[k].pc = "delay" =>
         pendingOps[k].delay =
           1000 * MathPow(2, pendingOps[k].retry - 1)


\* ------------------------------------------------------------------------
\* InterruptHandler called directly: constructor, registerCleanupCallback,
\* setCacheKey, handlePause, handleCancel, handleResume, handleUnmount and
\* reset on one handler whose cache manager holds the entries.  The
\* callbacks are opaque: a call records the tags of those it ran.
\* lastCall: ran, the tags run; cleared, the key passed to clearCache (0:
\* none); fresh, the handler was not cancelled when called; existed, the
\* tracked key had an entry when called (the last two for the properties).
HandlerCalled(op, ran, cleared) ==
  /\ calls < MaxDirectCalls
  /\ calls' = calls + 1
  /\ lastCall' =
       [op |-> op, ran |-> ran, cleared |-> cleared,
        fresh |-> ~interruptHandler.isCancelled,
        existed |-> /\ interruptHandler.currentCacheKey # 0
                    /\ entries[interruptHandler.currentCacheKey].exists]
  /\ UNCHANGED <<data, batchSize, cache, dbAvailable, hasIdle, faultMode,
                 throwsOn, keyVars, now, failures, reactState, loopRefs, refs,
                 cacheVars, storeVars, run>>

\* new InterruptHandler(cacheManager, preservePartialResults) 1384-1390
NewInterruptHandlerCall(cacheManager, preservePartialResults) ==
  /\ interruptHandler' =
       NewInterruptHandler(cacheManager, preservePartialResults)
  /\ UNCHANGED entries
  /\ HandlerCalled("new", <<>>, 0)

\* registerCleanupCallback(callback, type) 1514-1532
RegisterCleanupCallbackCall(type) ==
  /\ Len(interruptHandler.cleanupCallbacks) < MaxCallbacks
  /\ interruptHandler' = RegisterCleanupCallback(interruptHandler, type)
  /\ UNCHANGED entries
  /\ HandlerCalled("registerCleanupCallback", <<>>, 0)

\* setCacheKey(key) 1395-1397
SetCacheKeyCall(key) ==
  /\ interruptHandler' = SetCacheKey(interruptHandler, key)
  /\ UNCHANGED entries
  /\ HandlerCalled("setCacheKey", <<>>, 0)

\* the cache manager stores a batch under k (storeBatch and its flush)
HandlerStoreCall(k) ==
  /\ entries' =
       [entries EXCEPT ![k] =
          FlushedEntry(GetOrCreateEntryAt(k),
                       <<[index |-> 0, data |-> <<TransformFn(1)>>]>>)]
  /\ UNCHANGED interruptHandler
  /\ HandlerCalled("storeBatch", <<>>, 0)

\* handlePause() 1410-1425
HandlePauseCall ==
  /\ interruptHandler' = HandlePause(interruptHandler)
  /\ UNCHANGED entries
  /\ HandlerCalled("handlePause",
                   IF interruptHandler.isPaused THEN <<>>
                   ELSE ExecuteCleanupCallbacks(interruptHandler, "pause"),
                   0)

\* handleCancel() 1431-1452 with cleanupPartialResults 1576-1591 and the
\* clearCache it awaits
HandleCancelCall ==
  LET ih == interruptHandler
      key == IF ih.isCancelled \/ ih.preservePartialResults THEN 0
             ELSE CleanupPartialResults(ih)
  IN /\ interruptHandler' = HandleCancel(ih)
     /\ entries' = (IF key = 0 THEN entries ELSE Delete(entries, {key}))
     /\ HandlerCalled("handleCancel",
                      IF ih.isCancelled THEN <<>>
                      ELSE ExecuteCleanupCallbacks(ih, "cancel"),
                      key)

\* handleResume() 1475-1487
HandleResumeCall ==
  /\ interruptHandler' = HandleResume(interruptHandler)
  /\ UNCHANGED entries
  /\ HandlerCalled("handleResume", <<>>, 0)

\* handleUnmount() 1458-1470
HandleUnmount(ih) ==
  [ih EXCEPT !.isInterrupted = TRUE, !.cleanupCallbacks = <<>>]

HandleUnmountCall ==
  /\ interruptHandler' = HandleUnmount(interruptHandler)
  /\ UNCHANGED entries
  /\ HandlerCalled("handleUnmount",
                   ExecuteCleanupCallbacks(interruptHandler, "unmount"), 0)

\* reset() 1596-1604
ResetHandlerCall ==
  /\ interruptHandler' = ResetHandler(interruptHandler)
  /\ UNCHANGED entries
  /\ HandlerCalled("reset", <<>>, 0)

InitHandler ==
  /\ Init /\ cache /\ dbAvailable /\ faultMode = "none"
  /\ data = [k \in 1..MaxItems |-> 1] /\ batchSize = MaxBatchSize
  /\ hasIdle /\ throwsOn = 0

NextHandler ==
  \/ \E cacheManager \in BOOLEAN, preservePartialResults \in BOOLEAN :
       NewInterruptHandlerCall(cacheManager, preservePartialResults)
  \/ \E type \in CallbackTypes : RegisterCleanupCallbackCall(type)
  \/ \E key \in HandlerKeys : SetCacheKeyCall(key)
  \/ \E k \in HandlerKeys : HandlerStoreCall(k)
  \/ HandlePauseCall
  \/ HandleCancelCall
  \/ HandleResumeCall
  \/ HandleUnmountCall
  \/ ResetHandlerCall

SpecHandler == InitHandler /\ [][NextHandler]_vars

\* C22: handleCancel() on a handler that is not cancelled sets cancelled and
\* interrupted; on a cancelled handler it changes nothing, clears nothing and
\* runs no callback.  With preservePartialResults true it never calls
\* clearCache and every entry survives; with preservePartialResults false
\* (and a cache manager and a tracked fingerprint) it calls clearCache for
\* the tracked fingerprint and for no other key.
C22_HandleCancel ==
  [][lastCall'.op = "handleCancel" /\ calls' = calls + 1 =>
       LET ih == interruptHandler
       IN /\ ~ih.isCancelled =>
               interruptHandler'.isCancelled /\ interruptHandler'.isInterrupted
          /\ ih.isCancelled =>
               /\ interruptHandler' = ih
               /\ entries' = entries
               /\ lastCall'.cleared = 0
               /\ lastCall'.ran = <<>>
          /\ ih.preservePartialResults =>
               lastCall'.cleared = 0 /\ entries' = entries
          /\ (~ih.preservePartialResults /\ ~ih.isCancelled
              /\ ih.cacheManager /\ ih.currentCacheKey # 0) =>
               /\ lastCall'.cleared = ih.currentCacheKey
               /\ entries' = Delete(entries, {ih.currentCacheKey})]_vars

\* handleCancel() with preservePartialResults false has just cleared the
\* entry of the tracked fingerprint
C22_Witness ==
  /\ lastCall.op = "handleCancel"
  /\ lastCall.fresh /\ lastCall.existed
  /\ ~interruptHandler.preservePartialResults
  /\ lastCall.cleared = interruptHandler.currentCacheKey
  /\ lastCall.cleared # 0
  /\ ~entries[lastCall.cleared].exists


\* C23: handleUnmount() runs every registered cleanup callback whatever its
\* tag, then empties the registry, and leaves every cache entry as it was,
\* also when preservePartialResults is false.
C23_UnmountRunsEveryCallback ==
  [][lastCall'.op = "handleUnmount" /\ calls' = calls + 1 =>
       /\ lastCall'.ran = interruptHandler.cleanupCallbacks
       /\ interruptHandler'.cleanupCallbacks = <<>>
       /\ entries' = entries]_vars


\* ------------------------------------------------------------------------
\* The generator of createGenerator 161-188 run alone over collections of
\* up to MaxLength items with every batch size up to MaxLength; progress
\* holds the progress of the last batch it yielded.
CreateGeneratorCall ==
  /\ generatorRef = NoGenerator
  /\ generatorRef' = NewGenerator
  /\ UNCHANGED <<props, result, progress, isComputing, error, cacheStatus,
                 loopRefs, isCancelledRef, isPausedRef, cacheManagerRef,
                 currentCacheKeyRef, interruptHandler, cacheVars, storeVars,
                 run>>

GeneratorNextCall ==
  /\ generatorRef # NoGenerator
  /\ ~generatorRef.finished
  /\ LET genResult == GenNext(generatorRef)
     IN /\ generatorRef' = genResult.gen
        /\ IF genResult.done
           THEN result' = genResult.value /\ UNCHANGED progress
           ELSE /\ result' = result \o genResult.partial
                /\ progress' = genResult.progress
  /\ UNCHANGED <<props, isComputing, error, cacheStatus, loopRefs,
                 isCancelledRef, isPausedRef, cacheManagerRef,
                 currentCacheKeyRef, interruptHandler, cacheVars, storeVars,
                 run>>

InitProgress ==
  /\ data \in {[k \in 1..n |-> 1] : n \in 1..MaxLength}
  /\ batchSize \in 1..MaxLength
  /\ Mounted /\ ~cache /\ hasIdle /\ throwsOn = 0

NextProgress == CreateGeneratorCall \/ GeneratorNextCall

SpecProgress == InitProgress /\ [][NextProgress]_vars

\* C24: after each processed batch the progress reported for it is
\* floor(min(100, processedItems / totalItems * 100)).
C24_ProgressIsFloorOfPercentage ==
  (generatorRef # NoGenerator /\ generatorRef.i > 0) =>
    LET processedItems == Min(generatorRef.i, Len(data))
    IN progress = Min(100, (processedItems * 100) \div Len(data))


\* C25: isComputing is true from the moment start() begins a run until the
\* run completes, is paused, is cancelled or errors: it is never false while
\* slices of the run are still being scheduled and executed.
C25_IsComputingWhileRunInProgress ==
  (run.started /\ RunInProgress /\ error = Null) => isComputing


\* the in-order concatenations of the first k batches of the run, k = 0, 1, ...
BatchPrefixes ==
  {SubSeq(MapTransform(data), 1, Min(k * batchSize, Len(data))) :
     k \in 0..TotalBatches}

\* a run that was neither paused nor cancelled and has not completed
RunUnderWay == Uninterrupted /\ ~run.completed /\ ~run.errored

\* C26: during a run the result is at every moment the in-order
\* concatenation of the first k processed batches for some k, k never
\* decreases, and once no throttled delivery is pending the result holds
\* every batch processed so far.
C26_EveryBatchIsDelivered ==
  /\ [](RunUnderWay => result \in BatchPrefixes)
  /\ [][(RunUnderWay /\ run' = run) => Len(result') >= Len(result)]_vars
  /\ []((RunUnderWay /\ generatorRef # NoGenerator /\ rafIdRef = NoFrame)
          => result = generatorRef.results)


\* the executeStep callbacks pending on the event loop: each is the
\* continuation of one chain of slices
Chains == pendingSteps + (IF idleCallbackIdRef THEN 1 ELSE 0)

\* C27: a run has at most one continuation chain, so that no two slices of
\* it are ever active together, under any interleaving of start, pause,
\* resume and the pending callbacks.
C27_OneContinuationChainPerRun ==
  (run.started /\ run.clean) => Chains <= 1


\* ------------------------------------------------------------------------
\* Runs that are never cancelled, on an event loop that is fair.  cache is
\* off and transformFn never throws; cancel() and reset() are not called;
\* pause() is called only while a call is left for the resume() that
\* follows it.  Every pending executeStep callback and every pending frame
\* eventually fires (requestIdleCallback is given a timeout, so an idle
\* callback cannot find no time left for ever), and a paused scheduler is
\* eventually resumed.
PauseBeforeResume == Pause /\ calls < MaxCalls - 1

NextLive ==
  \/ Start
  \/ PauseBeforeResume
  \/ Resume
  \/ \E tracked \in BOOLEAN, budget \in 1..MaxNextsPerSlice :
       ExecuteStep(tracked, budget)
  \/ \E tracked \in BOOLEAN : IdleNoTime(tracked)
  \/ UpdateUI

SpecLive ==
  /\ InitScheduler
  /\ [][NextLive]_vars
  /\ WF_vars(\E tracked \in BOOLEAN, budget \in 1..MaxNextsPerSlice :
               ExecuteStep(tracked, budget))
  /\ WF_vars(UpdateUI)
  /\ WF_vars(Resume)

\* C28: a run over a non-empty collection with a transform that does not
\* throw, never cancelled and resumed after every pause, eventually
\* completes with progress 100, having processed exactly
\* ceil(n / batchSize) batches.
C28_RunEventuallyCompletes ==
  (run.started /\ ~run.completed) ~>
    (/\ run.completed /\ progress = 100
     /\ generatorRef.finished
     /\ generatorRef.i = TotalBatches * batchSize)


\* the flushes of the key's batch queue that are awaiting the store
FlushesInFlight ==
  Cardinality({k \in DOMAIN pendingOps : pendingOps[k].proc = "flush"})

\* C29: at most one flush of the key's pending-batch buffer is in flight at
\* any time, also when storeBatch or clearCache is called for the key while
\* a flush is awaiting the store.
C29_OneFlushInFlight == FlushesInFlight <= 1


\* C30: every batch storeBatch accepted is in the persisted entry under its
\* index once the flushes of the key have finished without a store failure
\* (no clear and no eviction having happened), also when it arrived while a
\* flush was in flight: when the last flush in flight returns, every batch
\* that was in the queue is in the entry it leaves behind.
C30_AcceptedBatchesArePersisted ==
  [][((\E o \in PutOutcomes : FlushPut(o)) /\ pendingOps' = <<>>) =>
       \A k \in DOMAIN batchQueue.batches :
         \E j \in DOMAIN store'.batches :
           store'.batches[j].index = batchQueue.batches[k].index]_vars


\* C31: when the put of a flush fails for quota the manager runs an eviction
\* pass and retries the flush once, so the flush is still under way and the
\* queued batches are kept for the retry; when it fails for another reason
\* (the retries of a timeout apart) the queued batches of the key are
\* dropped, and nothing is thrown to the caller.
C31_QuotaFailureEvictsAndRetriesFlush ==
  [][/\ (FlushPut("quota") /\ pendingOps[FirstRequest].caller = "timer") =>
          /\ FlushesInFlight' = FlushesInFlight
          /\ batchQueue'.batches = batchQueue.batches
     /\ (FlushPut("error") /\ pendingOps[FirstRequest].caller = "timer") =>
          /\ FlushesInFlight' = FlushesInFlight - 1
          /\ ~pendingOps[FirstRequest].detached =>
               batchQueue'.batches = <<>>]_vars


\* ------------------------------------------------------------------------
\* Entries damaged in the store.  The manager is called directly on the keys
\* 1..MaxCheckedKeys; an entry it wrote may be damaged behind its back (a
\* field lost, or a version of another major release); retryCount.cache_check
\* is the counter of the wrapper of checkCache.
EntryDamaged(k, shape) ==
  /\ entries[k].exists /\ entries[k].shape = "ok"
  /\ entries' = [entries EXCEPT ![k].shape = shape]
  /\ UNCHANGED <<data, batchSize, cache, dbAvailable, hasIdle, faultMode,
                 throwsOn, keyVars, now, lastCall, calls, failures,
                 reactState, loopRefs, refs, interruptHandler, cacheVars,
                 storeVars, run>>

\* checkCache(k) 429-486 inside createRecoveryWrapper 371-419: what it
\* returns, what it leaves in the store and in the recovery strategy
CheckCacheWrapped(k) ==
  LET cacheEntry == entries[k]
      recovery == Recovery("cache_check", FALSE)
      returns ==
        IF fallbackMode \/ ~cacheEntry.exists
           \/ ~ValidateCacheEntry(cacheEntry) \/ IsCacheExpired(cacheEntry)
        THEN NullResult
        ELSE [data |-> cacheEntry.data, isComplete |-> cacheEntry.isComplete,
              timestamp |-> cacheEntry.timestamp,
              batches |-> cacheEntry.batches]
  IN /\ calls < MaxDirectCalls
     /\ calls' = calls + 1
     /\ lastCall' = [op |-> "checkCache", key |-> k, usage |-> "low",
                     at |-> now, result |-> returns, before |-> entries,
                     prev |-> [op |-> lastCall.op, key |-> lastCall.key,
                               at |-> lastCall.at,
                               result |-> lastCall.result]]
     /\ IF fallbackMode
        THEN UNCHANGED <<entries, fallbackMode, retryCount>>
        ELSE IF cacheEntry.exists /\ ~ValidateCacheEntry(cacheEntry)
        THEN /\ UNCHANGED entries
             /\ fallbackMode' = recovery.fallbackMode
             /\ retryCount' = recovery.retryCount
        ELSE /\ entries' =
                  (IF ~cacheEntry.exists THEN entries
                   ELSE IF IsCacheExpired(cacheEntry)
                   THEN [entries EXCEPT ![k] = NoEntryAt]
                   ELSE [entries EXCEPT ![k] = UpdateLastAccessed(cacheEntry)])
             /\ retryCount' = ResetRetryCount("cache_check")
             /\ UNCHANGED fallbackMode
     /\ UNCHANGED <<data, batchSize, cache, dbAvailable, hasIdle, faultMode,
                    throwsOn, keyVars, now, failures, reactState, loopRefs,
                    refs, interruptHandler, batchQueue, storeVars, run>>

InitDamaged ==
  /\ Init /\ cache /\ dbAvailable /\ faultMode = "none"
  /\ data = [k \in 1..MaxItems |-> 1] /\ batchSize = MaxBatchSize
  /\ hasIdle /\ throwsOn = 0

NextDamaged ==
  \/ \E k \in 1..MaxCheckedKeys :
       ~fallbackMode /\ StoreEntryCall(k, <<TransformFn(1)>>)
  \/ \E k \in 1..MaxCheckedKeys, shape \in {"corrupt", "incompatible"} :
       EntryDamaged(k, shape)
  \/ \E k \in 1..MaxCheckedKeys : CheckCacheWrapped(k)
  \/ Tick

SpecDamaged == InitDamaged /\ [][NextDamaged]_vars

\* C32: checkCache(key) on a stored entry that fails validation or is of an
\* incompatible version returns null and has deleted the entry from the
\* store when it returns.
C32_InvalidEntryIsDeleted ==
  [][(lastCall'.op = "checkCache" /\ calls' = calls + 1
        /\ entries[lastCall'.key].exists
        /\ ~ValidateCacheEntry(entries[lastCall'.key]))
       => /\ lastCall'.result = NullResult
          /\ ~entries'[lastCall'.key].exists]_vars


\* ------------------------------------------------------------------------
\* cleanupExpired() on a store whose requests may fail.  keysFail: getAllKeys
\* rejects; getFail: the keys whose get rejects or times out in
\* analyzeEntriesForCleanup; deleteFail: the keys whose delete rejects.
\* navigator.storage.estimate() reports low usage.
\* attemptEmergencyCleanup 1513-1540: clear() empties the store
AttemptEmergencyCleanup(es) == [k \in Keys |-> NoEntryAt]

\* analyzeEntriesForCleanup 1200-1264: the keys it files under corrupted
Corrupted(es, getFail) ==
  {k \in AllKeys(es) : k \in getFail \/ ~ValidateCacheEntry(es[k])}

CleanupExpiredFailing(es, keysFail, getFail, deleteFail) ==
  IF keysFail THEN AttemptEmergencyCleanup(es)
  ELSE IF AllKeys(es) = {} THEN es
  ELSE LET corrupted == Corrupted(es, getFail)
           expired == {k \in AllKeys(es) \ corrupted : IsCacheExpired(es[k])}
           valid == (AllKeys(es) \ corrupted) \ expired
           targetCount == (maxSize * 3) \div 4
           old == IF Cardinality(valid) <= maxSize THEN {}
                  ELSE OldestFirst(es, valid, Cardinality(valid) - targetCount)
       IN Delete(es, (corrupted \cup expired \cup old) \ deleteFail)

CleanupExpiredFailingCall(keysFail, getFail, deleteFail) ==
  /\ keysFail \/ getFail # {} \/ deleteFail # {}
  /\ entries' = CleanupExpiredFailing(entries, keysFail, getFail, deleteFail)
  /\ Called("cleanupExpired", 0, "low", NullResult)

InitSweep ==
  /\ Init /\ cache /\ dbAvailable /\ faultMode = "none"
  /\ data = [k \in 1..MaxItems |-> 1] /\ batchSize = MaxBatchSize
  /\ hasIdle /\ throwsOn = 0

NextSweep ==
  \/ \E k \in Keys : StoreEntryCall(k, <<TransformFn(1)>>)
  \/ \E keysFail \in BOOLEAN, getFail \in SUBSET Keys,
        deleteFail \in SUBSET Keys :
       CleanupExpiredFailingCall(keysFail, getFail, deleteFail)
  \/ Tick

SpecSweep == InitSweep /\ [][NextSweep]_vars

\* the entries of es that are well-formed and unexpired
ValidKeys(es) ==
  {k \in AllKeys(es) : ValidateCacheEntry(es[k]) /\ ~IsCacheExpired(es[k])}

\* C33: a cleanupExpired() sweep that meets store failures removes no entry
\* that is well-formed, unexpired and within the maxSize limit.
C33_FailedSweepKeepsValidEntries ==
  [][(lastCall'.op = "cleanupExpired" /\ calls' = calls + 1
        /\ Cardinality(ValidKeys(entries)) <= maxSize)
       => \A k \in ValidKeys(entries) : entries'[k] = entries[k]]_vars


\* C34: when clearCache(key) returns, no run having been started (so no
\* storeBatch called) since it was called and no other clearCache pending,
\* the store holds no entry for key and neither a buffered batch nor a
\* debounce timer of key remains (a later checkCache returns null), also
\* when a flush of key was in flight meanwhile.
C34_ClearCacheLeavesNothing ==
  [][(/\ ClearMetaDeleted
      /\ ~run.started
      /\ \A i \in DOMAIN pendingOps' : pendingOps'[i].proc # "clearCache")
       => /\ ~store'.exists
          /\ batchQueue'.batches = <<>>
          /\ ~batchQueue'.timer]_vars


\* ------------------------------------------------------------------------
\* ErrorRecoveryStrategyImpl called directly.  st is the object's state
\* [fallbackMode, retryCount]; an error is a CacheError of some type or a
\* plain Error whose message holds some of the words detectErrorType looks
\* for.
CacheErrorTypes ==
  {"INITIALIZATION_FAILED", "STORAGE_QUOTA_EXCEEDED", "DATA_CORRUPTION",
   "SERIALIZATION_ERROR", "TIMEOUT_ERROR", "UNKNOWN_ERROR"}

Words == {"indexeddb", "quota", "timeout", "json", "corrupt", "database"}

Errors ==
  {[cacheError |-> TRUE, type |-> t, message |-> {}] : t \in CacheErrorTypes}
    \cup {[cacheError |-> FALSE, type |-> "Error", message |-> m] :
            m \in {w \in SUBSET Words : Cardinality(w) <= MaxWords}}

\* detectErrorType 21-97
DetectErrorType(err) ==
  IF err.cacheError THEN err.type
  ELSE IF "indexeddb" \in err.message THEN "INITIALIZATION_FAILED"
  ELSE IF "quota" \in err.message THEN "STORAGE_QUOTA_EXCEEDED"
  ELSE IF "timeout" \in err.message THEN "TIMEOUT_ERROR"
  ELSE IF "json" \in err.message THEN "SERIALIZATION_ERROR"
  ELSE IF "corrupt" \in err.message THEN "DATA_CORRUPTION"
  ELSE IF "database" \in err.message THEN "INITIALIZATION_FAILED"
  ELSE "UNKNOWN_ERROR"

AlwaysCleanup(st, errorType) == "CLEANUP_AND_RETRY"

\* selectRecoveryStrategy 104-137
SelectRecoveryStrategy(st, errorType) ==
  IF st.fallbackMode THEN "FALLBACK_TO_NON_CACHED"
  ELSE CASE errorType = "INITIALIZATION_FAILED" -> "FALLBACK_TO_NON_CACHED"
         [] errorType = "STORAGE_QUOTA_EXCEEDED" -> "CLEANUP_AND_RETRY"
         [] errorType = "DATA_CORRUPTION" -> "DELETE_CORRUPTED_CACHE"
         [] errorType = "SERIALIZATION_ERROR" -> "FALLBACK_TO_NON_CACHED"
         [] errorType = "TIMEOUT_ERROR" -> "RETRY_OPERATION"
         [] OTHER -> "CLEANUP_AND_RETRY"

\* fallbackToNonCached 176-181
FallbackToNonCached(st) ==
  [fallbackMode |-> TRUE, retryCount |-> [i \in OpIds |-> 0]]

\* resetFallbackMode 193-196
ResetFallbackMode(st) ==
  [fallbackMode |-> FALSE, retryCount |-> [i \in OpIds |-> 0]]

\* executeRecovery 143-170: the state it leaves; it returns true whatever
\* the action
ExecuteRecovery(st, action) ==
  IF action \in {"RETRY_OPERATION", "CLEANUP_AND_RETRY",
                 "DELETE_CORRUPTED_CACHE", "REDUCE_BATCH_SIZE"}
  THEN st ELSE FallbackToNonCached(st)

NeverIncrements(st, operationId) == st

\* incrementRetryCount 208-213
IncrementRetryCount(st, operationId) ==
  [st EXCEPT !.retryCount[operationId] = @ + 1]

AlwaysRetry(st, operationId) == TRUE

\* shouldRetry 225-229 in the state st
ShouldRetryIn(st, operationId) ==
  st.retryCount[operationId] < MAX_RETRIES /\ ~st.fallbackMode

\* handleError 312-365: the state it leaves and what it returns
HandleError(st, err, operationId) ==
  IF ~ShouldRetryIn(st, operationId)
  THEN [st |-> FallbackToNonCached(st),
        result |-> [recovered |-> TRUE, action |-> "FALLBACK_TO_NON_CACHED",
                    shouldFallback |-> TRUE]]
  ELSE LET action == SelectRecoveryStrategy(st, DetectErrorType(err))
           after == ExecuteRecovery(IncrementRetryCount(st, operationId),
                                    action)
       IN [st |-> after,
           result |-> [recovered |-> TRUE, action |-> action,
                       shouldFallback |-> after.fallbackMode]]

Strategy == [fallbackMode |-> fallbackMode, retryCount |-> retryCount]

\* a direct call on the strategy object and what it returned
StrategyCalled(op, operationId, err, st, res) ==
  /\ calls < MaxStrategyCalls
  /\ calls' = calls + 1
  /\ fallbackMode' = st.fallbackMode
  /\ retryCount' = st.retryCount
  /\ lastCall' = [op |-> op, id |-> operationId, err |-> err,
                  result |-> res, before |-> Strategy]
  /\ UNCHANGED <<data, batchSize, cache, dbAvailable, hasIdle, faultMode,
                 throwsOn, keyVars, entries, now, failures, reactState,
                 loopRefs, refs, interruptHandler, batchQueue, run>>

NoError == [cacheError |-> FALSE, type |-> "none", message |-> {}]

SelectRecoveryStrategyCall(errorType) ==
  /\ StrategyCalled("selectRecoveryStrategy", errorType, NoError, Strategy,
                    SelectRecoveryStrategy(Strategy, errorType))
  /\ UNCHANGED storeVars

HandleErrorCall(err, operationId) ==
  LET h == HandleError(Strategy, err, operationId)
  IN /\ StrategyCalled("handleError", operationId, err, h.st, h.result)
     /\ UNCHANGED storeVars

ResetRetryCountCall(operationId) ==
  /\ StrategyCalled("resetRetryCount", operationId, NoError,
                    [Strategy EXCEPT !.retryCount[operationId] = 0], Null)
  /\ UNCHANGED storeVars

FallbackToNonCachedCall ==
  /\ StrategyCalled("fallbackToNonCached", Null, NoError,
                    FallbackToNonCached(Strategy), TRUE)
  /\ UNCHANGED storeVars

ResetFallbackModeCall ==
  /\ StrategyCalled("resetFallbackMode", Null, NoError,
                    ResetFallbackMode(Strategy), Null)
  /\ UNCHANGED storeVars

\* A call of a function built by createRecoveryWrapper that has not returned:
\* pc is "operation" while it awaits operation() and "delay" while it awaits
\* the retry timer; invoked counts the calls of operation() it has made.
Wrapped(operationId, pc, invoked, delay) ==
  [proc |-> "wrapper", id |-> operationId, pc |-> pc, invoked |-> invoked,
   delay |-> delay]

\* the wrapper returns value
WrapperReturns(op, value, st, inFallback, failed) ==
  /\ fallbackMode' = st.fallbackMode
  /\ retryCount' = st.retryCount
  /\ lastCall' = [op |-> "wrapper", id |-> op.id, err |-> NoError,
                  result |-> value, invoked |-> op.invoked,
                  inFallback |-> inFallback, failed |-> failed]
  /\ UNCHANGED <<data, batchSize, cache, dbAvailable, hasIdle, faultMode,
                 throwsOn, keyVars, entries, now, failures, reactState,
                 loopRefs, refs, interruptHandler, batchQueue, run, store>>

\* createRecoveryWrapper 377-385: the built function is called
WrapperCall(operationId) ==
  /\ calls < MaxDirectCalls
  /\ calls' = calls + 1
  /\ IF fallbackMode
     THEN /\ WrapperReturns(Wrapped(operationId, "operation", 0, 0),
                            "fallbackValue", Strategy, TRUE, FALSE)
          /\ UNCHANGED pendingOps
     ELSE /\ CanIssue
          /\ pendingOps' =
               Append(pendingOps, Wrapped(operationId, "operation", 1, 0))
          /\ UNCHANGED <<options, failures, reactState, loopRefs, refs,
                         interruptHandler, cacheVars, store, run>>

\* createRecoveryWrapper 385-388: operation() resolved
OperationResolves(k) ==
  /\ k \in DOMAIN pendingOps
  /\ pendingOps[k].pc = "operation"
  /\ pendingOps' = RemoveAt(pendingOps, k)
  /\ WrapperReturns(pendingOps[k], "result",
                    [Strategy EXCEPT !.retryCount[pendingOps[k].id] = 0],
                    FALSE, FALSE)
  /\ UNCHANGED calls

\* createRecoveryWrapper 389-419: operation() rejected with the error err
OperationRejects(k, err) ==
  /\ k \in DOMAIN pendingOps
  /\ pendingOps[k].pc = "operation"
  /\ LET op == pendingOps[k]
         recovery == HandleError(Strategy, err, op.id)
     IN IF /\ ~recovery.result.shouldFallback
           /\ recovery.result.action = "RETRY_OPERATION"
           /\ ShouldRetryIn(recovery.st, op.id)
        THEN /\ pendingOps' =
                  [pendingOps EXCEPT ![k] =
                     Wrapped(op.id, "delay", op.invoked,
                             CalculateRetryDelay(recovery.st.retryCount,
                                                 op.id))]
             /\ fallbackMode' = recovery.st.fallbackMode
             /\ retryCount' = recovery.st.retryCount
             /\ UNCHANGED <<options, failures, reactState, loopRefs, refs,
                            interruptHandler, batchQueue, store, run>>
        ELSE /\ pendingOps' = RemoveAt(pendingOps, k)
             /\ WrapperReturns(op, "fallbackValue", recovery.st, FALSE, TRUE)
  /\ UNCHANGED calls

\* createRecoveryWrapper 409-415 and 377-385: the delay is over and the
\* function built anew is called
WrapperDelayElapsed(k) ==
  /\ k \in DOMAIN pendingOps
  /\ pendingOps[k].pc = "delay"
  /\ pendingOps[k].invoked < MaxInvocations
  /\ LET op == pendingOps[k]
     IN IF fallbackMode
        THEN /\ pendingOps' = RemoveAt(pendingOps, k)
             /\ WrapperReturns(op, "fallbackValue", Strategy, TRUE, TRUE)
        ELSE /\ pendingOps' =
                  [pendingOps EXCEPT ![k] =
                     Wrapped(op.id, "operation", op.invoked + 1, 0)]
             /\ UNCHANGED <<options, failures, reactState, loopRefs, refs,
                            interruptHandler, cacheVars, store, run>>
  /\ UNCHANGED calls

InitRecovery ==
  /\ Init /\ cache /\ dbAvailable /\ faultMode = "none"
  /\ data = [k \in 1..MaxItems |-> 1] /\ batchSize = MaxBatchSize
  /\ hasIdle /\ throwsOn = 0

NextRecovery ==
  \/ \E errorType \in CacheErrorTypes : SelectRecoveryStrategyCall(errorType)
  \/ \E err \in Errors, operationId \in OpIds :
       HandleErrorCall(err, operationId)
  \/ \E operationId \in OpIds : ResetRetryCountCall(operationId)
  \/ FallbackToNonCachedCall
  \/ ResetFallbackModeCall
  \/ \E operationId \in OpIds : WrapperCall(operationId)
  \/ \E k \in 1..MaxInFlight : OperationResolves(k)
  \/ \E k \in 1..MaxInFlight, err \in Errors : OperationRejects(k, err)
  \/ \E k \in 1..MaxInFlight : WrapperDelayElapsed(k)

SpecRecovery == InitRecovery /\ [][NextRecovery]_vars

\* the wrapped functions alone, under operation ids they share
NextWrapper ==
  \/ \E operationId \in OpIds : WrapperCall(operationId)
  \/ \E k \in 1..MaxInFlight : OperationResolves(k)
  \/ \E k \in 1..MaxInFlight, err \in Errors : OperationRejects(k, err)
  \/ \E k \in 1..MaxInFlight : WrapperDelayElapsed(k)

SpecWrapper == InitRecovery /\ [][NextWrapper]_vars


Fallback == "FALLBACK_TO_NON_CACHED"

\* this step is a call of op on the strategy that returns at once
Returns(op) ==
  calls' = calls + 1 /\ pendingOps' = pendingOps /\ lastCall'.op = op

\* C35: handleError(error, id) with id's retries exhausted enters fallback
\* and returns {recovered: true, action: FALLBACK_TO_NON_CACHED,
\* shouldFallback: true} without incrementing the counter; otherwise it
\* returns the action selected for the classified error kind with the outcome
\* of executing it, and leaves the state that incrementing id's counter by
\* one and then executing that action gives: the counter one higher, or, when
\* the action is the fallback, fallback mode with every counter at 0.
C35_HandleError ==
  [][Returns("handleError") =>
       LET id == lastCall'.id
           r == lastCall'.result
       IN IF retryCount[id] >= MAX_RETRIES
          THEN /\ fallbackMode'
               /\ r = [recovered |-> TRUE, action |-> Fallback,
                       shouldFallback |-> TRUE]
               /\ retryCount'[id] # retryCount[id] + 1
          ELSE /\ r.action = SelectRecoveryStrategy(
                               Strategy, DetectErrorType(lastCall'.err))
               /\ r.recovered
               /\ IF r.action = Fallback
                  THEN /\ fallbackMode'
                       /\ \A i \in OpIds : retryCount'[i] = 0
                  ELSE /\ fallbackMode' = fallbackMode
                       /\ retryCount' = [retryCount EXCEPT ![id] = @ + 1]]_vars

\* handleError has just sent an operation with exhausted retries to fallback
C35_Witness ==
  /\ lastCall.op = "handleError"
  /\ ~lastCall.before.fallbackMode
  /\ lastCall.before.retryCount[lastCall.id] = MAX_RETRIES
  /\ lastCall.result.action = Fallback
  /\ fallbackMode
  /\ retryCount[lastCall.id] = 0


\* this step is the return of a call of a function built by
\* createRecoveryWrapper
WrapperReturned ==
  \/ Returns("wrapper")
  \/ Len(pendingOps') < Len(pendingOps)

\* C36: a call of a function built by createRecoveryWrapper(id, op,
\* fallbackValue) returns fallbackValue without invoking op when made in
\* fallback mode; it returns op's result with id's counter reset when op
\* succeeded and fallbackValue when op's last call failed, and it has invoked
\* op at most 1 + MAX_RETRIES times when it returns.
C36_WrapperIsBounded ==
  [][WrapperReturned =>
       /\ (Returns("wrapper") /\ fallbackMode) =>
            (lastCall'.result = "fallbackValue" /\ lastCall'.invoked = 0)
       /\ lastCall'.result = "result" => retryCount'[lastCall'.id] = 0
       /\ lastCall'.failed => lastCall'.result = "fallbackValue"
       /\ lastCall'.invoked <= 1 + MAX_RETRIES]_vars

\* C37: selectRecoveryStrategy(kind) returns FALLBACK_TO_NON_CACHED for
\* every kind while fallback is active; otherwise INITIALIZATION_FAILED and
\* SERIALIZATION_ERROR give FALLBACK_TO_NON_CACHED, STORAGE_QUOTA_EXCEEDED
\* and UNKNOWN_ERROR give CLEANUP_AND_RETRY, DATA_CORRUPTION gives
\* DELETE_CORRUPTED_CACHE and TIMEOUT_ERROR gives RETRY_OPERATION; the call
\* changes neither the fallback flag nor any retry counter.
C37_SelectRecoveryStrategy ==
  [][Returns("selectRecoveryStrategy") =>
       LET kind == lastCall'.id
       IN /\ lastCall'.result =
               (IF fallbackMode \/ kind \in {"INITIALIZATION_FAILED",
                                             "SERIALIZATION_ERROR"}
                THEN Fallback
                ELSE IF kind \in {"STORAGE_QUOTA_EXCEEDED", "UNKNOWN_ERROR"}
                THEN "CLEANUP_AND_RETRY"
                ELSE IF kind = "DATA_CORRUPTION" THEN "DELETE_CORRUPTED_CACHE"
                ELSE "RETRY_OPERATION")
          /\ UNCHANGED <<fallbackMode, retryCount>>]_vars

\* a timeout was looked up while fallback was active
C37_Witness ==
  /\ lastCall.op = "selectRecoveryStrategy"
  /\ lastCall.id = "TIMEOUT_ERROR"
  /\ lastCall.before.fallbackMode
  /\ lastCall.result = Fallback

\* C38: every retry counter is between 0 and MAX_RETRIES; an operation's
\* counter is 0 when a wrapped call of it returns its result and after
\* resetRetryCount, and all counters are 0 after fallbackToNonCached and
\* after resetFallbackMode.
C38_RetryCountInRange ==
  /\ [](\A id \in OpIds : retryCount[id] \in 0..MAX_RETRIES)
  /\ [][/\ (WrapperReturned /\ lastCall'.result = "result") =>
              retryCount'[lastCall'.id] = 0
        /\ Returns("resetRetryCount") => retryCount'[lastCall'.id] = 0
        /\ (Returns("fallbackToNonCached") \/ Returns("resetFallbackMode"))
             => \A id \in OpIds : retryCount'[id] = 0]_vars

\* a counter has reached MAX_RETRIES while another has been reset after a
\* successful wrapped call
C38_Witness ==
  /\ \E id \in OpIds : retryCount[id] = MAX_RETRIES
  /\ lastCall.op = "wrapper"
  /\ lastCall.result = "result"
  /\ retryCount[lastCall.id] = 0


\* C39: once a run has completed, pause() and resume() leave result and
\* progress to every later executeStep as the run delivered them: the
\* finished generator is not advanced again and markComplete is not called
\* a second time.
C39_LatePauseAndResumeChangeNothing ==
  [][(/\ run.started /\ run.clean /\ run.completed /\ run.late
      /\ ~run.cancelled
      /\ \E tracked \in BOOLEAN, budget \in 1..MaxNextsPerSlice :
           ExecuteStep(tracked, budget))
       => /\ result' = result
          /\ progress' = progress
          /\ ~(EntersLoop /\ ~isPausedRef /\ generatorRef.finished)
          /\ pendingOps' = pendingOps]_vars


\* shouldContinue 1670-1672
ShouldContinue(ih) == ~ih.isInterrupted

\* shouldCancel 1684-1686
ShouldCancel(ih) == ih.isCancelled

\* C40: whatever handlePause, handleCancel, handleResume, handleUnmount and
\* reset calls the handler has received, shouldContinue() is false whenever
\* shouldCancel() is true (isCancelled implies isInterrupted).
C40_CancelledIsInterrupted ==
  ShouldCancel(interruptHandler) => ~ShouldContinue(interruptHandler)

=============================================================================
